---------------------------- MODULE Spec2Model ----------------------------
(***************************************************************************)
(* Favorites Store of the yr weather extension (storage.ts) together with  *)
(* the canonical location key resolver (utils/location-key.ts) it uses.    *)
(*                                                                         *)
(* JavaScript strings that the code inspects (ids) are sequences of        *)
(* one-character strings, so that startsWith, split, trim, Number() and    *)
(* toFixed() are computed and not assumed.  Numbers are integers counting  *)
(* units of 10^-(COORD_PRECISION+1), one decimal digit finer than the      *)
(* precision of a coordinate key, so that toFixed(3) really rounds.        *)
(***************************************************************************)
EXTENDS Integers, Sequences, FiniteSets, TLC

\* ------------------------------------------------------------------------
\* Strings
\* ------------------------------------------------------------------------

DigitChars == <<"0", "1", "2", "3", "4", "5", "6", "7", "8", "9">>

IsDigit(c) == \E d \in 1..10 : DigitChars[d] = c

DigitVal(c) == (CHOOSE d \in 1..10 : DigitChars[d] = c) - 1

StartsWith(s, prefix) ==
    /\ Len(s) >= Len(prefix)
    /\ SubSeq(s, 1, Len(prefix)) = prefix

OsmPrefix == <<"o", "s", "m", ":">>

CoordPrefix == <<"c", "o", "o", "r", "d", ":">>

IdPrefix == <<"i", "d", ":">>

FavoritePrefix == <<"f", "a", "v", "o", "r", "i", "t", "e", "-">>

\* String.prototype.split(","): the pieces between the commas.
RECURSIVE SplitComma(_)
SplitComma(s) ==
    IF \A i \in 1..Len(s) : s[i] /= ","
    THEN <<s>>
    ELSE LET i == CHOOSE k \in 1..Len(s) :
                      s[k] = "," /\ \A j \in 1..(k - 1) : s[j] /= ","
         IN  <<SubSeq(s, 1, i - 1)>> \o SplitComma(SubSeq(s, i + 1, Len(s)))

\* String.prototype.trim(): leading and trailing blanks removed.
RECURSIVE Trim(_)
Trim(s) ==
    IF s = <<>> THEN s
    ELSE IF Head(s) = " " THEN Trim(Tail(s))
    ELSE IF s[Len(s)] = " " THEN Trim(SubSeq(s, 1, Len(s) - 1))
    ELSE s

\* ------------------------------------------------------------------------
\* Numbers
\* ------------------------------------------------------------------------

COORD_PRECISION == 3

\* Number of model units in 1.0: one decimal digit below the key precision.
Unit == 10 * (10 ^ COORD_PRECISION)

Num(v) == [fin |-> TRUE, v |-> v]

NaN == [fin |-> FALSE, v |-> 0]

RECURSIVE DigitsValue(_)
DigitsValue(ds) ==
    IF ds = <<>> THEN 0
    ELSE 10 * DigitsValue(SubSeq(ds, 1, Len(ds) - 1)) + DigitVal(ds[Len(ds)])

AllDigits(ds) == \A i \in 1..Len(ds) : IsDigit(ds[i])

\* The fraction digits of a decimal literal in model units (digits below the
\* model's resolution are dropped: the model holds no such literal).
FractionValue(ds) ==
    LET width  == COORD_PRECISION + 1
        padded == ds \o [i \in 1..width |-> "0"]
    IN  DigitsValue(SubSeq(padded, 1, width))

Contains(s, c) == \E i \in 1..Len(s) : s[i] = c

FirstIndexOf(s, c) ==
    CHOOSE k \in 1..Len(s) : s[k] = c /\ \A j \in 1..(k - 1) : s[j] /= c

\* The value of <ip>.<fp>; at least one of the two parts holds a digit.
DecimalValue(ip, fp) ==
    IF AllDigits(ip) /\ AllDigits(fp) /\ Len(ip) + Len(fp) > 0
    THEN Num(DigitsValue(ip) * Unit + FractionValue(fp))
    ELSE NaN

DecimalAt(t, i) == DecimalValue(SubSeq(t, 1, i - 1), SubSeq(t, i + 1, Len(t)))

UnsignedNumber(t) ==
    IF Contains(t, ".") THEN DecimalAt(t, FirstIndexOf(t, "."))
    ELSE IF AllDigits(t) /\ Len(t) > 0 THEN Num(DigitsValue(t) * Unit)
    ELSE NaN

Negated(u) == IF u.fin THEN Num(0 - u.v) ELSE NaN

TrimmedToNumber(t) ==
    IF t = <<>> THEN Num(0)
    ELSE IF Head(t) = "-" THEN Negated(UnsignedNumber(Tail(t)))
    ELSE IF Head(t) = "+" THEN UnsignedNumber(Tail(t))
    ELSE UnsignedNumber(t)

\* Number(string) for decimal literals: blanks around it are ignored, the
\* empty string is 0, [sign] digits [. digits] is its value, anything else
\* is NaN.
StringToNumber(s) == TrimmedToNumber(Trim(s))

RECURSIVE IntDigits(_)
IntDigits(n) ==
    IF n < 10 THEN <<DigitChars[n + 1]>>
    ELSE IntDigits(n \div 10) \o <<DigitChars[(n % 10) + 1]>>

\* The digits of n, with zeros in front up to `width` digits.
ZeroPadded(ds, width) == [i \in 1..(width - Len(ds)) |-> "0"] \o ds

\* The decimal notation of scaled / 10^COORD_PRECISION.
FixedDigits(scaled) ==
    IntDigits(scaled \div (10 ^ COORD_PRECISION)) \o <<".">>
        \o ZeroPadded(IntDigits(scaled % (10 ^ COORD_PRECISION)), COORD_PRECISION)

Magnitude(n) == IF n < 0 THEN 0 - n ELSE n

\* n.toFixed(COORD_PRECISION): the sign of a negative number is kept even
\* when it rounds to zero, and a tie goes to the larger magnitude.
coordPart(n) ==
    (IF n < 0 THEN <<"-">> ELSE <<>>) \o FixedDigits((Magnitude(n) + 5) \div 10)

\* ------------------------------------------------------------------------
\* Location identity resolver
\* ------------------------------------------------------------------------

Undefined == [k |-> "none", s |-> <<>>]

StrId(s) == [k |-> "str", s |-> s]

locationKeyFromCoords(lat, lon) ==
    CoordPrefix \o coordPart(lat) \o <<",">> \o coordPart(lon)

NoPair == [ok |-> FALSE, lat |-> 0, lon |-> 0]

PairOfNumbers(lat, lon) ==
    IF ~lat.fin \/ ~lon.fin THEN NoPair
    ELSE [ok |-> TRUE, lat |-> lat.v, lon |-> lon.v]

PairOfParts(parts) ==
    IF Len(parts) /= 2 THEN NoPair
    ELSE PairOfNumbers(StringToNumber(parts[1]), StringToNumber(parts[2]))

\* Mutant: no text is read as a pair of coordinates.
looksLikeLatLonPairNever(id) == NoPair

\* Returns [ok, lat, lon]; ok = FALSE stands for null.
looksLikeLatLonPair(id) == PairOfParts(SplitComma(id))

\* Mutant: coord: is not a canonical prefix.
HasOsmOrIdPrefix(id) == StartsWith(id, OsmPrefix) \/ StartsWith(id, IdPrefix)

HasCanonicalPrefix(id) ==
    StartsWith(id, OsmPrefix) \/ StartsWith(id, CoordPrefix) \/ StartsWith(id, IdPrefix)

\* Mutant: digits get the id: prefix.
KeyOfPairOrIdNoOsm(id, pair) ==
    IF pair.ok THEN locationKeyFromCoords(pair.lat, pair.lon)
    ELSE IdPrefix \o id

\* The rules after the placeholder rule, pair being looksLikeLatLonPair(id).
KeyOfPairOrId(id, pair) ==
    IF pair.ok THEN locationKeyFromCoords(pair.lat, pair.lon)
    ELSE IF AllDigits(id) THEN OsmPrefix \o id
    ELSE IdPrefix \o id

\* id is an optional string: Undefined or StrId(s).  The key is a string.
locationKeyFromIdOrCoords(id, lat, lon) ==
    IF id.k = "str" /\ id.s /= <<>>
    THEN IF HasCanonicalPrefix(id.s) THEN id.s
         ELSE IF StartsWith(id.s, FavoritePrefix) THEN locationKeyFromCoords(lat, lon)
         ELSE KeyOfPairOrId(id.s, looksLikeLatLonPair(id.s))
    ELSE locationKeyFromCoords(lat, lon)

\* ------------------------------------------------------------------------
\* The persisted record `favorite-locations` and its JSON encoding
\* ------------------------------------------------------------------------

\* FavoriteLocation: id is an optional string, lat and lon are finite numbers.
Fav(id, name, lat, lon) == [id |-> id, name |-> name, lat |-> lat, lon |-> lon]

\* What LocalStorage holds under STORAGE_KEY: nothing, text that is not JSON,
\* JSON that is not an array, or a JSON array.
Absent == [k |-> "absent", items |-> <<>>]

Garbage == [k |-> "garbage", items |-> <<>>]

NonArray == [k |-> "nonarray", items |-> <<>>]

ArrayDoc(items) == [k |-> "array", items |-> items]

\* A JSON array element: an object (every field may be missing or of another
\* type) or null.
JObj(id, name, lat, lon) ==
    [t |-> "obj", id |-> id, name |-> name, lat |-> lat, lon |-> lon]

JName(s) == [def |-> TRUE, s |-> s]

NoName == [def |-> FALSE, s |-> ""]

NonStringId == [k |-> "other", s |-> <<>>]

JNull == [t |-> "null", id |-> Undefined, name |-> NoName, lat |-> NaN, lon |-> NaN]

\* JSON.stringify(list): an undefined id is left out of the object.
JSONstringify(list) ==
    ArrayDoc([i \in 1..Len(list) |->
                JObj(list[i].id, JName(list[i].name), Num(list[i].lat), Num(list[i].lon))])

setFavorites(list) == JSONstringify(list)

\* ------------------------------------------------------------------------
\* getFavorites
\* ------------------------------------------------------------------------

\* The .map() callback: coerces the fields of one parsed element.
LoadItem(p) ==
    [id   |-> IF p.id.k = "str" THEN p.id ELSE Undefined,
     name |-> IF p.name.def THEN p.name.s ELSE "Unknown",
     lat  |-> p.lat,
     lon  |-> p.lon]

\* .filter(): the elements with finite coordinates, as FavoriteLocations.
FiniteOnly(mapped) ==
    [i \in 1..Len(mapped) |->
        Fav(mapped[i].id, mapped[i].name, mapped[i].lat.v, mapped[i].lon.v)]

Loaded(items) ==
    FiniteOnly(SelectSeq([i \in 1..Len(items) |-> LoadItem(items[i])],
                         LAMBDA f : f.lat.fin /\ f.lon.fin))

\* Mutant: the migration keeps an entry whose key was seen before.
MigrateOneKeepsAll(fav, canonicalId, deduped, seen, changed) ==
    [deduped |-> Append(deduped, [fav EXCEPT !.id = StrId(canonicalId)]),
     seen    |-> seen \cup {canonicalId},
     changed |-> changed \/ fav.id /= StrId(canonicalId)]

\* Mutant: on a collision the later entry replaces the earlier one.
MigrateOneLastWins(fav, canonicalId, deduped, seen, changed) ==
    IF canonicalId \in seen
    THEN [deduped |-> [i \in 1..Len(deduped) |->
                          IF deduped[i].id = StrId(canonicalId)
                          THEN [fav EXCEPT !.id = StrId(canonicalId)]
                          ELSE deduped[i]],
          seen    |-> seen,
          changed |-> TRUE]
    ELSE [deduped |-> Append(deduped, [fav EXCEPT !.id = StrId(canonicalId)]),
          seen    |-> seen \cup {canonicalId},
          changed |-> changed \/ fav.id /= StrId(canonicalId)]

\* Mutant: the kept entry keeps the id it was stored with.
MigrateOneKeepsId(fav, canonicalId, deduped, seen, changed) ==
    IF canonicalId \in seen
    THEN [deduped |-> deduped, seen |-> seen, changed |-> TRUE]
    ELSE [deduped |-> Append(deduped, fav),
          seen    |-> seen \cup {canonicalId},
          changed |-> changed \/ fav.id /= StrId(canonicalId)]

\* One pass of the migration loop for fav, whose canonical id is given;
\* deduped, seen and changed are the loop's variables.
MigrateOne(fav, canonicalId, deduped, seen, changed) ==
    IF canonicalId \in seen
    THEN [deduped |-> deduped, seen |-> seen, changed |-> TRUE]
    ELSE [deduped |-> Append(deduped, [fav EXCEPT !.id = StrId(canonicalId)]),
          seen    |-> seen \cup {canonicalId},
          changed |-> changed \/ fav.id /= StrId(canonicalId)]

\* The migration loop over loaded[i..], st holding the loop's variables.
RECURSIVE MigrateFrom(_, _, _)
MigrateFrom(loaded, i, st) ==
    IF i > Len(loaded) THEN st
    ELSE MigrateFrom(loaded, i + 1,
             MigrateOne(loaded[i],
                        locationKeyFromIdOrCoords(loaded[i].id, loaded[i].lat, loaded[i].lon),
                        st.deduped, st.seen, st.changed))

Migrate(loaded) ==
    MigrateFrom(loaded, 1, [deduped |-> <<>>, seen |-> {}, changed |-> FALSE])

Returned(m) == [threw |-> FALSE, list |-> m.deduped, changed |-> m.changed]

\* The try block up to the migration write: threw = an exception left it.
GetFavoritesTry(raw) ==
    IF raw.k = "garbage"
    THEN [threw |-> TRUE, list |-> <<>>, changed |-> FALSE]
    ELSE IF raw.k /= "array"
    THEN [threw |-> FALSE, list |-> <<>>, changed |-> FALSE]
    ELSE IF \E i \in 1..Len(raw.items) : raw.items[i].t = "null"
    THEN [threw |-> TRUE, list |-> <<>>, changed |-> FALSE]
    ELSE Returned(Migrate(Loaded(raw.items)))

\* Mutant: the exception is not caught.
GetFavoritesRethrow(t) == t

\* catch { return []; }
GetFavoritesCatch(t) ==
    IF t.threw THEN [threw |-> FALSE, list |-> <<>>, changed |-> FALSE] ELSE t

\* What getFavorites computes from the value it read, before any write.
GetFavoritesOutcome(raw) ==
    IF raw.k = "absent"
    THEN [threw |-> FALSE, list |-> <<>>, changed |-> FALSE]
    ELSE GetFavoritesCatch(GetFavoritesTry(raw))

\* ------------------------------------------------------------------------
\* The operations on the list getFavorites returned
\* ------------------------------------------------------------------------

sameLocation(a, b) ==
    locationKeyFromIdOrCoords(a.id, a.lat, a.lon)
        = locationKeyFromIdOrCoords(b.id, b.lat, b.lon)

\* { ...fav, id: locationKeyFromIdOrCoords(fav.id, fav.lat, fav.lon) }
Canonical(fav) ==
    [fav EXCEPT !.id = StrId(locationKeyFromIdOrCoords(fav.id, fav.lat, fav.lon))]

\* Mutant: the candidate's id is compared as passed in, not canonicalized.
HasLocationByRawId(list, fav) ==
    \E i \in 1..Len(list) : list[i].id = fav.id

\* list.some((f) => sameLocation(f, canonical))
HasLocation(list, fav) ==
    \E i \in 1..Len(list) : sameLocation(list[i], Canonical(fav))

\* list.findIndex(...), counted from 0; -1 when there is none.
FindIndex(list, fav) ==
    IF HasLocation(list, fav)
    THEN (CHOOSE i \in 1..Len(list) :
              /\ sameLocation(list[i], Canonical(fav))
              /\ \A j \in 1..(i - 1) : ~sameLocation(list[j], Canonical(fav))) - 1
    ELSE 0 - 1

\* Mutant: the second assignment reads the element the first one overwrote.
SwapOverwrites(list, a, b) ==
    [list EXCEPT ![a + 1] = list[b + 1]]

\* [list[a], list[b]] = [list[b], list[a]] with 0-based a and b.
Swap(list, a, b) ==
    [list EXCEPT ![a + 1] = list[b + 1], ![b + 1] = list[a + 1]]

\* Each operation after `await getFavorites()`: whether it calls
\* setFavorites, with which list, and what it returns.
NoWrite(ret) == [write |-> FALSE, pend |-> <<>>, ret |-> ret]

DoWrite(list, ret) == [write |-> TRUE, pend |-> list, ret |-> ret]

getFavoritesCall(list) == NoWrite("list")

\* Mutant: the new entry is put in front (unshift for push).
addFavoritePrepends(list, fav) ==
    IF ~HasLocation(list, fav)
    THEN DoWrite(<<Canonical(fav)>> \o list, "true")
    ELSE NoWrite("false")

\* Mutant: a duplicate add overwrites the stored entry with the candidate.
addFavoriteOverwrites(list, fav) ==
    IF ~HasLocation(list, fav)
    THEN DoWrite(Append(list, Canonical(fav)), "true")
    ELSE DoWrite([i \in 1..Len(list) |->
                     IF sameLocation(list[i], Canonical(fav)) THEN Canonical(fav)
                     ELSE list[i]], "false")

addFavorite(list, fav) ==
    IF ~HasLocation(list, fav)
    THEN DoWrite(Append(list, Canonical(fav)), "true")
    ELSE NoWrite("false")

\* Mutant: the candidate's id is compared as passed in, not canonicalized.
removeFavoriteByRawId(list, fav) ==
    DoWrite(SelectSeq(list, LAMBDA f : f.id /= fav.id), "void")

\* Mutant: the filter keeps the matching entries instead of the others.
removeFavoriteInverted(list, fav) ==
    DoWrite(SelectSeq(list, LAMBDA f : sameLocation(f, Canonical(fav))), "void")

removeFavorite(list, fav) ==
    DoWrite(SelectSeq(list, LAMBDA f : ~sameLocation(f, Canonical(fav))), "void")

\* Mutant: the candidate's id is compared as passed in, not canonicalized.
isFavoriteByRawId(list, fav) ==
    NoWrite(IF HasLocationByRawId(list, fav) THEN "true" ELSE "false")

isFavorite(list, fav) ==
    NoWrite(IF HasLocation(list, fav) THEN "true" ELSE "false")

MoveUpAt(list, index) ==
    IF index > 0 THEN DoWrite(Swap(list, index, index - 1), "void")
    ELSE NoWrite("void")

moveFavoriteUp(list, fav) == MoveUpAt(list, FindIndex(list, fav))

MoveDownAt(list, index) ==
    IF index >= 0 /\ index < Len(list) - 1
    THEN DoWrite(Swap(list, index, index + 1), "void")
    ELSE NoWrite("void")

moveFavoriteDown(list, fav) == MoveDownAt(list, FindIndex(list, fav))

Ops == {"getFavorites", "addFavorite", "removeFavorite", "isFavorite",
        "moveFavoriteUp", "moveFavoriteDown"}

Continue(o, list, fav) ==
    CASE o = "getFavorites"     -> getFavoritesCall(list)
      [] o = "addFavorite"      -> addFavorite(list, fav)
      [] o = "removeFavorite"   -> removeFavorite(list, fav)
      [] o = "isFavorite"       -> isFavorite(list, fav)
      [] o = "moveFavoriteUp"   -> moveFavoriteUp(list, fav)
      [] o = "moveFavoriteDown" -> moveFavoriteDown(list, fav)

\* ------------------------------------------------------------------------
\* Inputs
\* ------------------------------------------------------------------------

\* Longest list initially persisted when calls run one after the other.
MaxLen == 3

\* Longest list initially persisted when calls overlap.
MaxOverlapLen == 2

Procs == {1, 2}

KeyOsm7 == OsmPrefix \o <<"7">>

KeyIdA == IdPrefix \o <<"a">>

\* Array elements as earlier versions and this version may have stored them:
\* an element without id and name, a "lat,lon" id that rounds to the same
\* coordinate key, a raw numeric id, a canonical id with a latitude that is
\* not a number, and a canonical id of another place.
StoredItems ==
    { JObj(NonStringId, NoName, Num(6), Num(0)),
      JObj(StrId(<<"0", ".", "0", "0", "1", ",", "0">>), JName("A"), Num(4), Num(0)),
      JObj(StrId(<<"7">>), JName("A"), Num(4), Num(0)),
      JObj(StrId(KeyOsm7), JName("B"), NaN, Num(0)),
      JObj(StrId(KeyIdA), JName("B"), Num(14), Num(0)) }

RECURSIVE SeqsUpTo(_, _)
SeqsUpTo(S, n) ==
    IF n = 0 THEN {<<>>}
    ELSE LET shorter == SeqsUpTo(S, n - 1)
         IN  shorter \cup {Append(q, x) : q \in {r \in shorter : Len(r) = n - 1}, x \in S}

\* Arrays that hold null, alone or after an element.
ArraysWithNull ==
    {ArrayDoc(<<JNull>>)} \cup {ArrayDoc(<<x, JNull>>) : x \in StoredItems}

\* The values the record can hold at the start: nothing, malformed values,
\* and the arrays of at most n elements.
InitialStores(n) ==
    {Absent, Garbage, NonArray} \cup ArraysWithNull
        \cup {ArrayDoc(items) : items \in SeqsUpTo(StoredItems, n)}

\* The locations callers pass in.
Candidates ==
    { Fav(Undefined, "C", 6, 0),
      Fav(StrId(<<"7">>), "C", 6, 0),
      Fav(StrId(KeyOsm7), "D", 14, 0) }

\* ------------------------------------------------------------------------
\* State
\* ------------------------------------------------------------------------

VARIABLES
    store,      \* the value LocalStorage holds under `favorite-locations`
    pc,         \* per call: "idle", "read", "migrate", "write", "done"
    op,         \* per call: the operation called
    cand,       \* per call: its argument
    list,       \* per call: the list its getFavorites returns
    pend,       \* per call: the list it passes to setFavorites next
    ret,        \* per call: "none" until it returns, then its result
    pre,        \* history: the store when the call was made
    post,       \* history: the store when the call returned
    replaced,   \* history: the store value the call's last setItem replaced
    stale,      \* history: another call wrote the store after this one read it
    writes,     \* history: number of setItem calls the call made
    lastWrite   \* history: the last list passed to setFavorites, and by whom

VARIABLES
    kv,          \* LocalStorage: the text stored under each key that is present
    now,         \* Date.now(), in milliseconds
    memoryCache, \* the memoryCache map of the cacheManager singleton
    last,        \* history: the last cache operation, its arguments and result
    wrote,       \* history: per cache key, when setCached wrote what is stored
    steps,       \* history: number of cache operations made
    call         \* the request that is under way: its options and position

cacheVars == <<kv, now, memoryCache, last, wrote, steps, call>>

favoritesVars == <<store, pc, op, cand, list, pend, ret, pre, post, replaced,
                   stale, writes, lastWrite>>

vars == <<favoritesVars, cacheVars>>

\* A map without keys.
EmptyMap == [k \in {} |-> k]

\* No request is under way.
NoCall == [pc |-> "idle"]

\* No cache operation has been made and none is made.
CacheUnused ==
    /\ kv = EmptyMap
    /\ now = 0
    /\ memoryCache = EmptyMap
    /\ last = [op |-> "none"]
    /\ wrote = EmptyMap
    /\ steps = 0
    /\ call = NoCall

NoFav == Fav(Undefined, "", 0, 0)

\* No call of the Favorites Store has been made; the record holds one of
\* `stores`.
FavoritesInit(stores) ==
    /\ store \in stores
    /\ pc = [p \in Procs |-> "idle"]
    /\ op = [p \in Procs |-> "none"]
    /\ cand = [p \in Procs |-> NoFav]
    /\ list = [p \in Procs |-> <<>>]
    /\ pend = [p \in Procs |-> <<>>]
    /\ ret = [p \in Procs |-> "none"]
    /\ pre = [p \in Procs |-> Absent]
    /\ post = [p \in Procs |-> Absent]
    /\ replaced = [p \in Procs |-> Absent]
    /\ stale = [p \in Procs |-> FALSE]
    /\ writes = [p \in Procs |-> 0]
    /\ lastWrite = [by |-> 0, list |-> <<>>]

InitWith(stores) == FavoritesInit(stores) /\ CacheUnused

Init == InitWith(InitialStores(MaxOverlapLen))

InitSeq == InitWith(InitialStores(MaxLen))

InProgress(p) == pc[p] \in {"read", "migrate", "write"}

\* A caller invokes operation o with argument c.  The calls are numbered in
\* the order they are made.
Call(p, o, c) ==
    /\ pc[p] = "idle"
    /\ \A q \in Procs : q < p => pc[q] /= "idle"
    /\ pc' = [pc EXCEPT ![p] = "read"]
    /\ op' = [op EXCEPT ![p] = o]
    /\ cand' = [cand EXCEPT ![p] = c]
    /\ pre' = [pre EXCEPT ![p] = store]
    /\ UNCHANGED <<store, list, pend, ret, post, replaced, stale, writes, lastWrite>>

\* A call returns r while the store holds st.
Return(p, r, st) ==
    /\ pc' = [pc EXCEPT ![p] = "done"]
    /\ ret' = [ret EXCEPT ![p] = r]
    /\ post' = [post EXCEPT ![p] = st]

\* The operation's own code once getFavorites has returned lst, c being what
\* the operation computes from it: it returns, or calls setFavorites.
Proceed(p, lst, st, c) ==
    /\ list' = [list EXCEPT ![p] = lst]
    /\ IF c.write
       THEN /\ pc' = [pc EXCEPT ![p] = "write"]
            /\ pend' = [pend EXCEPT ![p] = c.pend]
            /\ UNCHANGED <<ret, post>>
       ELSE /\ Return(p, c.ret, st)
            /\ UNCHANGED pend

AfterGetFavorites(p, lst, st) == Proceed(p, lst, st, Continue(op[p], lst, cand[p]))

\* getFavorites has parsed and migrated what it read: it calls setFavorites
\* if the migration changed anything and returns otherwise.  An exception
\* that escapes getFavorites ends the call.
Parsed(p, out) ==
    IF out.threw
    THEN /\ Return(p, "error", store)
         /\ UNCHANGED <<list, pend>>
    ELSE IF out.changed
    THEN /\ pc' = [pc EXCEPT ![p] = "migrate"]
         /\ pend' = [pend EXCEPT ![p] = out.list]
         /\ UNCHANGED <<list, ret, post>>
    ELSE AfterGetFavorites(p, out.list, store)

\* LocalStorage.getItem resolves.
GetFavoritesRead(p) ==
    /\ pc[p] = "read"
    /\ Parsed(p, GetFavoritesOutcome(store))
    /\ stale' = [stale EXCEPT ![p] = FALSE]
    /\ UNCHANGED <<store, op, cand, pre, replaced, writes, lastWrite>>

\* A setItem takes effect: the whole record is replaced.
StoreWrite(p) ==
    /\ store' = setFavorites(pend[p])
    /\ replaced' = [replaced EXCEPT ![p] = store]
    /\ stale' = [q \in Procs |-> IF q /= p /\ pc[q] \in {"migrate", "write"}
                                 THEN TRUE ELSE stale[q]]
    /\ writes' = [writes EXCEPT ![p] = @ + 1]
    /\ lastWrite' = [by |-> p, list |-> pend[p]]

\* `await setFavorites(deduped)` inside getFavorites, then `return deduped`.
GetFavoritesMigrate(p) ==
    /\ pc[p] = "migrate"
    /\ StoreWrite(p)
    /\ AfterGetFavorites(p, pend[p], setFavorites(pend[p]))
    /\ UNCHANGED <<op, cand, pre>>

\* What a mutating operation returns after its setFavorites.
ReturnAfterWrite(o) == IF o = "addFavorite" THEN "true" ELSE "void"

\* `await setFavorites(...)` of addFavorite, removeFavorite, moveFavoriteUp
\* and moveFavoriteDown, then the return.
MutationWrite(p) ==
    /\ pc[p] = "write"
    /\ StoreWrite(p)
    /\ Return(p, ReturnAfterWrite(op[p]), setFavorites(pend[p]))
    /\ UNCHANGED <<op, cand, list, pend, pre>>

Next ==
    \E p \in Procs :
        \/ \E o \in Ops, c \in Candidates : Call(p, o, c) /\ UNCHANGED cacheVars
        \/ GetFavoritesRead(p) /\ UNCHANGED cacheVars
        \/ GetFavoritesMigrate(p) /\ UNCHANGED cacheVars
        \/ MutationWrite(p) /\ UNCHANGED cacheVars

\* Calls made at any time: they overlap at their awaits.
Spec == Init /\ [][Next]_vars

\* A caller that awaits each call before it makes the next one.
SeqCall(p, o, c) ==
    /\ \A q \in Procs : ~InProgress(q)
    /\ Call(p, o, c)

NextSeq ==
    \E p \in Procs :
        \/ \E o \in Ops, c \in Candidates : SeqCall(p, o, c) /\ UNCHANGED cacheVars
        \/ GetFavoritesRead(p) /\ UNCHANGED cacheVars
        \/ GetFavoritesMigrate(p) /\ UNCHANGED cacheVars
        \/ MutationWrite(p) /\ UNCHANGED cacheVars

SeqSpec == InitSeq /\ [][NextSeq]_vars

\* ------------------------------------------------------------------------
\* Properties
\* ------------------------------------------------------------------------

KeyOf(f) == locationKeyFromIdOrCoords(f.id, f.lat, f.lon)

Keys(l) == {KeyOf(l[i]) : i \in 1..Len(l)}

NoDuplicateKeys(l) ==
    \A i, j \in 1..Len(l) : i < j => KeyOf(l[i]) /= KeyOf(l[j])

\* The favorites list a stored value stands for: what getFavorites returns
\* when it reads that value.
View(st) == GetFavoritesOutcome(st).list

NeedsMigration(st) == GetFavoritesOutcome(st).changed

Done(p) == pc[p] = "done"

Called(p, o) == Done(p) /\ op[p] = o

\* C1: under any interleaving of the calls at their awaits, every list
\* getFavorites returns and every list passed to setFavorites (about to be
\* written, or written last) holds no two entries with the same canonical key.
C1_NoDuplicateKeys ==
    /\ \A p \in Procs : NoDuplicateKeys(list[p]) /\ NoDuplicateKeys(pend[p])
    /\ NoDuplicateKeys(lastWrite.list)

\* Two overlapping calls have both written, starting from a record that held
\* colliding entries, and the list written last has two entries.
C1_Witness ==
    /\ Len(View(pre[1])) < Len(pre[1].items)
    /\ \A p \in Procs : Done(p) /\ writes[p] > 0
    /\ \E p \in Procs : stale[p]
    /\ Len(lastWrite.list) >= 2

\* C2: a mutation writes the list it computed from its own read, whatever the
\* store holds by then.  When two addFavorite calls for distinct keys both
\* return true and the one that wrote last had read before the other wrote,
\* the persisted list is the last writer's list: it holds the last writer's
\* location and has lost the other one.
C2_LostUpdate ==
    \A p, q \in Procs :
        ( /\ p /= q
          /\ Called(p, "addFavorite") /\ ret[p] = "true"
          /\ Called(q, "addFavorite") /\ ret[q] = "true"
          /\ KeyOf(cand[p]) /= KeyOf(cand[q])
          /\ lastWrite.by = p
          /\ stale[p] )
        => /\ store = setFavorites(Append(list[p], Canonical(cand[p])))
           /\ KeyOf(cand[p]) \in Keys(View(store))
           /\ KeyOf(cand[q]) \notin Keys(View(store))

\* Both adds returned true and only one of the two locations is persisted.
C2_Witness ==
    \E p, q \in Procs :
        /\ p /= q
        /\ Called(p, "addFavorite") /\ ret[p] = "true"
        /\ Called(q, "addFavorite") /\ ret[q] = "true"
        /\ KeyOf(cand[p]) /= KeyOf(cand[q])
        /\ lastWrite.by = p
        /\ stale[p]
        /\ KeyOf(cand[q]) \notin Keys(View(store))

\* C3: addFavorite, then at once addFavorite with the same canonical key,
\* on a list (as getFavorites returns it) without that key: the calls return
\* true then false, and the persisted list is that list with the canonical
\* candidate of the first call appended, one entry longer.
C3_AddTwice ==
    ( /\ Called(1, "addFavorite") /\ Called(2, "addFavorite")
      /\ KeyOf(cand[1]) = KeyOf(cand[2])
      /\ KeyOf(cand[1]) \notin Keys(View(pre[1])) )
    => /\ ret[1] = "true"
       /\ ret[2] = "false"
       /\ pre[2] = post[1]
       /\ post[2] = setFavorites(Append(View(pre[1]), Canonical(cand[1])))
       /\ Len(View(post[2])) = Len(View(pre[1])) + 1

\* The two adds spell the same place differently and the list was not empty.
C3_Witness ==
    /\ Called(1, "addFavorite") /\ Called(2, "addFavorite")
    /\ KeyOf(cand[1]) = KeyOf(cand[2])
    /\ cand[1] /= cand[2]
    /\ KeyOf(cand[1]) \notin Keys(View(pre[1]))
    /\ Len(View(pre[1])) >= 1
    /\ ret[2] = "false"

\* C4 as stated: when an entry with the candidate's key exists, addFavorite
\* returns false and the persisted value is the same before and after.
C4_Original ==
    \A p \in Procs :
        (Called(p, "addFavorite") /\ KeyOf(cand[p]) \in Keys(View(pre[p])))
        => ret[p] = "false" /\ post[p] = pre[p]

\* C4 amended: when an entry with the candidate's key exists, addFavorite
\* returns false and its only possible write is the migration write of its
\* getFavorites: the persisted value afterwards is the value before, or its
\* migrated form when an id had to be rewritten or a duplicate collapsed.  The
\* list is the same before and after, so no entry takes the candidate's name
\* or coordinates.
C4_DuplicateAddOnlyMigrates ==
    \A p \in Procs :
        (Called(p, "addFavorite") /\ KeyOf(cand[p]) \in Keys(View(pre[p])))
        => /\ ret[p] = "false"
           /\ post[p] = IF NeedsMigration(pre[p]) THEN setFavorites(View(pre[p]))
                        ELSE pre[p]
           /\ View(post[p]) = View(pre[p])
           /\ writes[p] = IF NeedsMigration(pre[p]) THEN 1 ELSE 0

\* A duplicate add on a record that needed no migration, after a first call
\* that left it so.
C4_Witness ==
    /\ Called(2, "addFavorite")
    /\ KeyOf(cand[2]) \in Keys(View(pre[2]))
    /\ \E i \in 1..Len(View(pre[2])) :
          /\ KeyOf(View(pre[2])[i]) = KeyOf(cand[2])
          /\ View(pre[2])[i].name /= cand[2].name
    /\ ~NeedsMigration(pre[2])
    /\ ret[2] = "false"

\* The entries of loaded that are the first with their key, in their order,
\* each with its id replaced by its key.
FirstOccurrences(loaded) ==
    LET firsts == SelectSeq([i \in 1..Len(loaded) |-> i],
                            LAMBDA i : \A j \in 1..(i - 1) :
                                           KeyOf(loaded[j]) /= KeyOf(loaded[i]))
    IN  [n \in 1..Len(firsts) |->
            [loaded[firsts[n]] EXCEPT !.id = StrId(KeyOf(loaded[firsts[n]]))]]

IsFavoritesArray(st) ==
    st.k = "array" /\ \A i \in 1..Len(st.items) : st.items[i].t = "obj"

\* C5: for every persisted array of favorites, colliding keys included,
\* getFavorites returns a list without duplicate keys whose entries are the
\* first occurrences of their keys among the entries with finite
\* coordinates, with that occurrence's name and coordinates and the key as
\* id, in their original relative order.
C5_FirstOccurrenceWins ==
    \A p \in Procs :
        (Called(p, "getFavorites") /\ IsFavoritesArray(pre[p]))
        => /\ ret[p] = "list"
           /\ list[p] = FirstOccurrences(Loaded(pre[p].items))
           /\ NoDuplicateKeys(list[p])

\* Three loaded entries, the first two colliding, two survivors.
C5_Witness ==
    /\ Called(1, "getFavorites")
    /\ IsFavoritesArray(pre[1])
    /\ Len(Loaded(pre[1].items)) = 3
    /\ KeyOf(Loaded(pre[1].items)[1]) = KeyOf(Loaded(pre[1].items)[2])
    /\ Loaded(pre[1].items)[1].name /= Loaded(pre[1].items)[2].name
    /\ Len(list[1]) = 2

\* C6: when getFavorites changed what it loaded (an id rewritten, a
\* duplicate collapsed), the list it returns is in the store when it returns;
\* a getFavorites that follows with no write in between reads that value,
\* returns the same list and writes nothing.
C6_MigrationIdempotent ==
    (Called(1, "getFavorites") /\ Called(2, "getFavorites"))
    => /\ (IsFavoritesArray(pre[1]) /\ list[1] /= Loaded(pre[1].items))
              => (writes[1] = 1 /\ post[1] = setFavorites(list[1]))
       /\ pre[2] = post[1]
       /\ list[2] = list[1]
       /\ writes[2] = 0
       /\ post[2] = post[1]

\* The first getFavorites rewrote ids and collapsed a duplicate, and wrote.
C6_Witness ==
    /\ Called(1, "getFavorites") /\ Called(2, "getFavorites")
    /\ IsFavoritesArray(pre[1])
    /\ Len(list[1]) = 2
    /\ Len(Loaded(pre[1].items)) = 3
    /\ writes[1] = 1
    /\ post[1] /= pre[1]

\* The entries of l whose key is not k, in their order.
Without(l, k) == SelectSeq(l, LAMBDA f : KeyOf(f) /= k)

\* C7: removeFavorite persists the list (as getFavorites returns it) without
\* the entries that have the candidate's key, the others in their order, and
\* raises no error; a second removeFavorite of the same location raises no
\* error and leaves the persisted value as the first call left it.
C7_RemoveIdempotent ==
    /\ \A p \in Procs :
          Called(p, "removeFavorite")
          => /\ ret[p] = "void"
             /\ post[p] = setFavorites(Without(View(pre[p]), KeyOf(cand[p])))
    /\ ( /\ Called(1, "removeFavorite") /\ Called(2, "removeFavorite")
         /\ KeyOf(cand[1]) = KeyOf(cand[2]) )
       => (pre[2] = post[1] /\ post[2] = post[1])

\* The location was in a list of three and is removed twice, spelled in two
\* ways.
C7_Witness ==
    /\ Called(1, "removeFavorite") /\ Called(2, "removeFavorite")
    /\ KeyOf(cand[1]) = KeyOf(cand[2])
    /\ cand[1] /= cand[2]
    /\ KeyOf(cand[1]) \in Keys(View(pre[1]))
    /\ Len(View(pre[1])) = 3
    /\ Len(View(post[2])) = 2

\* The call removed a location that was neither in the list it read nor in
\* the list persisted just before its write.
RemovedAbsent(p) ==
    /\ Called(p, "removeFavorite")
    /\ KeyOf(cand[p]) \notin Keys(list[p])
    /\ KeyOf(cand[p]) \notin Keys(View(replaced[p]))

\* C8 as stated: a removeFavorite of a location that is not in the list
\* leaves the persisted list as it was just before its write, also when it
\* overlaps another call.
C8_Original ==
    \A p \in Procs :
        RemovedAbsent(p) => View(post[p]) = View(replaced[p])

\* C8 amended: a removeFavorite of a location that is not in the list leaves
\* the persisted list unchanged when no other call wrote the store between
\* its read and its write: the list persisted by its write is the one it
\* read and the one its write replaced.
C8_RemoveAbsentUnraced ==
    \A p \in Procs :
        (RemovedAbsent(p) /\ ~stale[p])
        => /\ View(post[p]) = View(replaced[p])
           /\ View(post[p]) = list[p]

\* The other call's add took effect between this removeFavorite's call and
\* its read: the calls overlap, and the added location is still persisted.
C8_Witness ==
    /\ Called(1, "addFavorite") /\ ret[1] = "true"
    /\ RemovedAbsent(2)
    /\ ~stale[2]
    /\ KeyOf(cand[1]) \notin Keys(View(pre[2]))
    /\ KeyOf(cand[1]) \in Keys(View(post[2]))

\* The place of the entry with key k in l, counted from 1; 0 when there is
\* none.
PositionOf(l, k) ==
    IF k \in Keys(l) THEN CHOOSE i \in 1..Len(l) : KeyOf(l[i]) = k ELSE 0

\* l with the entries at places i and j exchanged.
Exchanged(l, i, j) ==
    [n \in 1..Len(l) |-> IF n = i THEN l[j] ELSE IF n = j THEN l[i] ELSE l[n]]

Occurrences(l, x) == Cardinality({i \in 1..Len(l) : l[i] = x})

SameEntries(a, b) ==
    /\ Len(a) = Len(b)
    /\ \A i \in 1..Len(a) : Occurrences(a, a[i]) = Occurrences(b, a[i])

MovedUp(l, i) == IF i > 1 THEN Exchanged(l, i, i - 1) ELSE l

MovedDown(l, i) == IF i >= 1 /\ i < Len(l) THEN Exchanged(l, i, i + 1) ELSE l

\* C9: moveFavoriteUp (moveFavoriteDown) leaves the list (as getFavorites
\* returns it) with the entry that has the candidate's key exchanged with its
\* predecessor (successor); for the first entry (last entry) and for a
\* location not in the list the list is unchanged.  No error is raised, and
\* the entries and the length of the list are the same before and after.
C9_MoveSwapsNeighbours ==
    \A p \in Procs :
        /\ Called(p, "moveFavoriteUp")
           => /\ ret[p] = "void"
              /\ View(post[p]) =
                    MovedUp(View(pre[p]), PositionOf(View(pre[p]), KeyOf(cand[p])))
              /\ SameEntries(View(post[p]), View(pre[p]))
        /\ Called(p, "moveFavoriteDown")
           => /\ ret[p] = "void"
              /\ View(post[p]) =
                    MovedDown(View(pre[p]), PositionOf(View(pre[p]), KeyOf(cand[p])))
              /\ SameEntries(View(post[p]), View(pre[p]))

\* The third of three entries is moved up; then the last entry is moved down,
\* which changes nothing.
C9_Witness ==
    /\ Called(1, "moveFavoriteUp")
    /\ Len(View(pre[1])) = 3
    /\ PositionOf(View(pre[1]), KeyOf(cand[1])) = 3
    /\ PositionOf(View(post[1]), KeyOf(cand[1])) = 2
    /\ Called(2, "moveFavoriteDown")
    /\ PositionOf(View(pre[2]), KeyOf(cand[2])) = 3
    /\ View(post[2]) = View(pre[2])

\* The stored value is not JSON, is JSON but no array, or is an array that
\* holds null.
Malformed(st) ==
    \/ st.k \in {"garbage", "nonarray"}
    \/ st.k = "array" /\ \E i \in 1..Len(st.items) : st.items[i].t = "null"

\* C10: no operation ends with an error; when the stored value is
\* malformed, getFavorites returns the empty list and isFavorite returns
\* false.
C10_MalformedIsEmpty ==
    \A p \in Procs :
        /\ ret[p] /= "error"
        /\ (Done(p) /\ Malformed(pre[p]))
           => /\ list[p] = <<>>
              /\ op[p] = "getFavorites" => ret[p] = "list"
              /\ op[p] = "isFavorite" => ret[p] = "false"

\* isFavorite and then getFavorites on a value that is not JSON.
C10_Witness ==
    /\ Called(1, "isFavorite") /\ pre[1] = Garbage /\ ret[1] = "false"
    /\ Called(2, "getFavorites") /\ pre[2] = Garbage /\ ret[2] = "list"
    /\ list[2] = <<>>

\* ------------------------------------------------------------------------
\* Text: character codes, btoa, JSON string literals
\* ------------------------------------------------------------------------

\* The printable ASCII characters in code order, from the space (32) to the
\* tilde (126); "U+0060" stands for the grave accent.
AsciiChars ==
    <<" ", "!", "\"", "#", "$", "%", "&", "'", "(", ")", "*", "+", ",",
      "-", ".", "/", "0", "1", "2", "3", "4", "5", "6", "7", "8", "9", ":",
      ";", "<", "=", ">", "?", "@", "A", "B", "C", "D", "E", "F", "G", "H",
      "I", "J", "K", "L", "M", "N", "O", "P", "Q", "R", "S", "T", "U", "V",
      "W", "X", "Y", "Z", "[", "\\", "]", "^", "_", "U+0060", "a", "b",
      "c", "d", "e", "f", "g", "h", "i", "j", "k", "l", "m", "n", "o", "p",
      "q", "r", "s", "t", "u", "v", "w", "x", "y", "z", "{", "|", "}", "~">>

InAscii(c) == \E i \in 1..Len(AsciiChars) : AsciiChars[i] = c

\* The code unit of a printable ASCII character.
CharCode(c) == (CHOOSE i \in 1..Len(AsciiChars) : AsciiChars[i] = c) + 31

\* A character outside Latin-1 (U+0141), as place names hold them.
NonLatin1Char == "U+0141"

\* The base64 alphabet.
Base64Chars ==
    <<"A", "B", "C", "D", "E", "F", "G", "H", "I", "J", "K", "L", "M", "N",
      "O", "P", "Q", "R", "S", "T", "U", "V", "W", "X", "Y", "Z", "a", "b",
      "c", "d", "e", "f", "g", "h", "i", "j", "k", "l", "m", "n", "o", "p",
      "q", "r", "s", "t", "u", "v", "w", "x", "y", "z", "0", "1", "2", "3",
      "4", "5", "6", "7", "8", "9", "+", "/">>

\* The i-th byte of bytes, 0 past the end.
ByteAt(bytes, i) == IF i <= Len(bytes) THEN bytes[i] ELSE 0

\* The r-th (0..3) six-bit group of the three bytes b1 b2 b3.
Sextet(b1, b2, b3, r) ==
    IF r = 0 THEN b1 \div 4
    ELSE IF r = 1 THEN (b1 % 4) * 16 + b2 \div 16
    ELSE IF r = 2 THEN (b2 % 16) * 4 + b3 \div 64
    ELSE b3 % 64

\* The character of the encoding at place 4g + r + 1: "=" where the group
\* holds no byte for it.
Base64CharAt(bytes, g, r) ==
    IF r >= 2 /\ 3 * g + r > Len(bytes) THEN "="
    ELSE Base64Chars[Sextet(ByteAt(bytes, 3 * g + 1), ByteAt(bytes, 3 * g + 2),
                            ByteAt(bytes, 3 * g + 3), r) + 1]

Base64OfBytes(bytes) ==
    [j \in 1..(4 * ((Len(bytes) + 2) \div 3)) |->
        Base64CharAt(bytes, (j - 1) \div 4, (j - 1) % 4)]

\* A string result or a thrown exception.
Threw == [threw |-> TRUE, s |-> <<>>]

Str(s) == [threw |-> FALSE, s |-> s]

\* btoa(s): the base64 encoding of the code units of s; it throws
\* InvalidCharacterError when s holds a character above U+00FF.
btoa(s) ==
    IF \E i \in 1..Len(s) : ~InAscii(s[i]) THEN Threw
    ELSE Str(Base64OfBytes([i \in 1..Len(s) |-> CharCode(s[i])]))

IsAlnum(c) ==
    \E i \in 1..62 : Base64Chars[i] = c

\* JSON.stringify of a string: quotes and backslashes are escaped, characters
\* above ASCII are written as they are.
RECURSIVE JsonEscaped(_)
JsonEscaped(s) ==
    IF s = <<>> THEN <<>>
    ELSE (IF Head(s) \in {"\"", "\\"} THEN <<"\\", Head(s)>> ELSE <<Head(s)>>)
             \o JsonEscaped(Tail(s))

JsonString(s) == <<"\"">> \o JsonEscaped(s) \o <<"\"">>

\* "name":value
JsonMember(name, value) == JsonString(name) \o <<":">> \o value

\* ------------------------------------------------------------------------
\* Graph cache: content hash and cache key
\* ------------------------------------------------------------------------

\* An optional value that is left out: an undefined argument or property.
Missing == [def |-> FALSE, s |-> <<>>]

Given(s) == [def |-> TRUE, s |-> s]

\* series[0]?.time
firstTime(series) == IF Len(series) = 0 THEN Missing ELSE Given(series[1].time)

\* series[series.length - 1]?.time
lastTime(series) ==
    IF Len(series) = 0 THEN Missing ELSE Given(series[Len(series)].time)

\* JSON.stringify of one SunTimes value of the map, under its date.
SunTimesMember(e) ==
    JsonMember(e.date,
        <<"{">> \o JsonMember(<<"s", "u", "n", "r", "i", "s", "e">>, JsonString(e.sunrise))
            \o <<",">> \o JsonMember(<<"s", "u", "n", "s", "e", "t">>, JsonString(e.sunset))
            \o <<"}">>)

RECURSIVE SunTimesMembers(_)
SunTimesMembers(entries) ==
    IF entries = <<>> THEN <<>>
    ELSE SunTimesMember(Head(entries))
             \o (IF Len(entries) > 1 THEN <<",">> ELSE <<>>)
             \o SunTimesMembers(Tail(entries))

\* sunByDate ? JSON.stringify(sunByDate) : "empty"
SunByDateText(sunByDate) ==
    IF sunByDate.def THEN <<"{">> \o SunTimesMembers(sunByDate.entries) \o <<"}">>
    ELSE <<"e", "m", "p", "t", "y">>

\* ,"name":"value" for a property that is defined, nothing for undefined.
OptionalMember(name, value) ==
    IF value.def THEN <<",">> \o JsonMember(name, JsonString(value.s)) ELSE <<>>

\* JSON.stringify(keyData)
KeyDataText(series, name, hours, sunByDate) ==
    <<"{">>
        \o JsonMember(<<"s", "e", "r", "i", "e", "s", "L", "e", "n", "g", "t", "h">>,
                      IntDigits(Len(series)))
        \o <<",">> \o JsonMember(<<"n", "a", "m", "e">>, JsonString(name))
        \o <<",">> \o JsonMember(<<"h", "o", "u", "r", "s">>, IntDigits(hours))
        \o OptionalMember(<<"f", "i", "r", "s", "t", "T", "i", "m", "e">>, firstTime(series))
        \o OptionalMember(<<"l", "a", "s", "t", "T", "i", "m", "e">>, lastTime(series))
        \o <<",">> \o JsonMember(<<"s", "u", "n", "B", "y", "D", "a", "t", "e">>,
                                 JsonString(SunByDateText(sunByDate)))
        \o <<"}">>

\* The length the hash is cut to.
HashLength == 40

\* .replace(/[^a-zA-Z0-9]/g, "").substring(0, 40)
Shortened(encoded) ==
    IF encoded.threw THEN Threw
    ELSE Str(SubSeq(SelectSeq(encoded.s, IsAlnum), 1, HashLength))

\* Mutant: the hash keeps the whole encoding of the summary.
generateDataHashWhole(series, name, hours, sunByDate) ==
    btoa(KeyDataText(series, name, hours, sunByDate))

\* The hash of the request's inputs, or the exception btoa throws.
generateDataHash(series, name, hours, sunByDate) ==
    Shortened(btoa(KeyDataText(series, name, hours, sunByDate)))

GraphPrefix == <<"g", "r", "a", "p", "h", ":">>

Dark == <<"d", "a", "r", "k">>

Light == <<"l", "i", "g", "h", "t">>

\* graph:<locationKey>:<mode>:<paletteId>
GraphBaseKey(locationKey, mode, paletteId) ==
    GraphPrefix \o locationKey \o <<":">> \o mode \o <<":">> \o paletteId

\* Mutant: the key is made of the target date or the hash alone.
CacheKeyGeneratorGraphTailOnly(locationKey, mode, targetDate, dataHash, paletteId) ==
    IF targetDate.def /\ targetDate.s /= <<>>
    THEN GraphPrefix \o targetDate.s
    ELSE GraphPrefix \o dataHash.s

\* CacheKeyGenerator.graph: targetDate and dataHash are optional; an empty
\* string counts as not given.
CacheKeyGeneratorGraph(locationKey, mode, targetDate, dataHash, paletteId) ==
    IF targetDate.def /\ targetDate.s /= <<>>
    THEN GraphBaseKey(locationKey, mode, paletteId) \o <<":">> \o targetDate.s
    ELSE IF dataHash.def /\ dataHash.s /= <<>>
    THEN GraphBaseKey(locationKey, mode, paletteId) \o <<":">> \o dataHash.s
    ELSE GraphBaseKey(locationKey, mode, paletteId)

\* generateGraphCacheKey: the palette follows environment.appearance.
generateGraphCacheKey(locationKey, mode, targetDate, dataHash, appearance) ==
    CacheKeyGeneratorGraph(locationKey, mode, targetDate, Given(dataHash),
                           IF appearance = Dark THEN Dark ELSE Light)

\* ------------------------------------------------------------------------
\* Generic TTL cache (cache.ts): values, stored text, pure parts
\* ------------------------------------------------------------------------

KEY_PREFIX == <<"c", "a", "c", "h", "e", ":">>

StorageKey(key) == KEY_PREFIX \o key

\* JavaScript values as callers pass them and get them back.
Undef == [t |-> "undefined"]

Null == [t |-> "null"]

NumV(n) == [t |-> "number", n |-> n]

NaNV == [t |-> "NaN"]

StrV(s) == [t |-> "string", s |-> s]

\* if (v): false for undefined, null, 0, NaN and "".
Truthy(v) ==
    \/ v.t = "object"
    \/ v.t = "number" /\ v.n /= 0
    \/ v.t = "string" /\ v.s /= <<>>

\* What JSON.parse gives back for a property that JSON.stringify wrote with
\* value v: NaN is written as null, an undefined property is left out and
\* reads as undefined.
JsonOf(v) == IF v.t = "NaN" THEN Null ELSE v

\* Text stored under a key: JSON.stringify({ savedAtMs, value }), where
\* savedAtMs is a value, and other texts.
EntryText(savedAtMs, value) ==
    [k |-> "entry", savedAtMs |-> JsonOf(savedAtMs), value |-> JsonOf(value)]

\* Text that is not JSON.
UnparseableText == [k |-> "garbage"]

\* The text `null`.
NullText == [k |-> "null"]

\* The empty string.
EmptyText == [k |-> "empty"]

\* JSON of another shape, as the keys outside the cache hold it.
OtherText == [k |-> "other"]

\* m with v under k.
Put(m, k, v) == [x \in DOMAIN m \cup {k} |-> IF x = k THEN v ELSE m[x]]

\* m without the keys ks.
Drop(m, ks) == [x \in DOMAIN m \ ks |-> m[x]]

Thrown == [threw |-> TRUE, value |-> Undef]

Value(v) == [threw |-> FALSE, value |-> v]

\* Mutant: an entry expires when its age reaches the TTL.
EntryValueExpiresEarly(p, ttlMs, t) ==
    IF p.savedAtMs.t /= "number" THEN Value(Undef)
    ELSE IF t - p.savedAtMs.n >= ttlMs THEN Value(Undef)
    ELSE Value(p.value)

\* The checks of getCached on the parsed entry p at time t.
EntryValue(p, ttlMs, t) ==
    IF p.savedAtMs.t /= "number" THEN Value(Undef)
    ELSE IF t - p.savedAtMs.n > ttlMs THEN Value(Undef)
    ELSE Value(p.value)

\* JSON.parse(raw) and the checks on what it returns.
ParsedValue(raw, ttlMs, t) ==
    IF raw.k = "garbage" THEN Thrown
    ELSE IF raw.k = "entry" THEN EntryValue(raw, ttlMs, t)
    ELSE Value(Undef)

\* The try block of getCached on the store `items` at time t; getItemFails:
\* LocalStorage.getItem rejects.
getCachedTry(items, key, ttlMs, t, getItemFails) ==
    IF getItemFails THEN Thrown
    ELSE IF StorageKey(key) \notin DOMAIN items THEN Value(Undef)
    ELSE IF items[StorageKey(key)].k = "empty" THEN Value(Undef)
    ELSE ParsedValue(items[StorageKey(key)], ttlMs, t)

\* Mutant: the exception leaves getCached.
getCachedRethrow(r) == r

\* catch { return undefined; }
getCachedCatch(r) == IF r.threw THEN Value(Undef) ELSE r

getCached(items, key, ttlMs, t, getItemFails) ==
    getCachedCatch(getCachedTry(items, key, ttlMs, t, getItemFails))

\* Mutant: the entry is stamped with the time 0 instead of Date.now().
setCachedUnstamped(items, key, value, t) ==
    Put(items, StorageKey(key), EntryText(NumV(0), value))

\* The store after setCached(key, value) at time t, when setItem succeeds.
setCached(items, key, value, t) ==
    Put(items, StorageKey(key), EntryText(NumV(t), value))

\* The store after removeCached(key), when removeItem succeeds.
removeCached(items, key) == Drop(items, {StorageKey(key)})

\* Mutant: the filter looks for the prefix without the cache namespace.
PrefixedKeysAnywhere(items, storagePrefix) ==
    {k \in DOMAIN items :
        StartsWith(k, SubSeq(storagePrefix, Len(KEY_PREFIX) + 1, Len(storagePrefix)))}

\* Object.keys(all).filter((k) => k.startsWith(storagePrefix))
PrefixedKeys(items, storagePrefix) ==
    {k \in DOMAIN items : StartsWith(k, storagePrefix)}

\* The keys clearCachedByPrefix(prefix) removes.
ClearedByPrefix(items, prefix) == PrefixedKeys(items, KEY_PREFIX \o prefix)

\* The keys clearAllCached removes.
ClearedAll(items) == PrefixedKeys(items, KEY_PREFIX)

\* ------------------------------------------------------------------------
\* Generic TTL cache: operations
\* ------------------------------------------------------------------------

\* Most cache operations made in one behaviour.
MaxOps == 2

\* Latest time the clock reaches while the generic cache is exercised.
MaxTime == 3

STORAGE_KEY == <<"f", "a", "v", "o", "r", "i", "t", "e", "-",
                 "l", "o", "c", "a", "t", "i", "o", "n", "s">>

FIRST_TIME_KEY == <<"f", "i", "r", "s", "t", "-", "t", "i", "m", "e", "-",
                    "u", "s", "e", "r">>

WeatherKey == <<"w", "e", "a", "t", "h", "e", "r", ":", "a">>

GraphKey == <<"g", "r", "a", "p", "h", ":", "x">>

ShortKey == <<"w">>

CacheKeys == {WeatherKey, GraphKey, ShortKey}

\* Prefixes passed to clearCachedByPrefix.
Prefixes == {GraphPrefix, <<"w">>, <<>>}

\* Values passed to setCached: three that JSON represents and two that it
\* does not.
Values == {Null, StrV(<<"v">>), NumV(0), Undef, NaNV}

JsonRepresentable(v) == v.t \in {"null", "number", "string", "object"}

Ttls == {0, 1, 2}

\* The keys outside the cache namespace; one of them looks like a cache key
\* without the namespace.
OutsideCache ==
    [k \in {STORAGE_KEY, FIRST_TIME_KEY, GraphKey} |-> OtherText]

\* Stores at the start: no cache entry, and entries an earlier session left,
\* readable and not.
InitialCaches ==
    { OutsideCache,
      Put(Put(OutsideCache, StorageKey(WeatherKey), UnparseableText),
          StorageKey(GraphKey), EntryText(NumV(0), StrV(<<"g">>))),
      Put(Put(Put(OutsideCache, StorageKey(WeatherKey), NullText),
              StorageKey(GraphKey), EntryText(StrV(<<"x">>), NumV(1))),
          StorageKey(ShortKey), EmptyText) }

CacheInit ==
    /\ kv \in InitialCaches
    /\ now = 0
    /\ memoryCache = EmptyMap
    /\ last = [op |-> "none"]
    /\ wrote = EmptyMap
    /\ steps = 0
    /\ call = NoCall

\* The cache keys whose storage key is in ks.
KeysStoredUnder(ks) == {k \in DOMAIN wrote : StorageKey(k) \in ks}

\* Time passes.
Tick(d, latest) ==
    /\ now + d <= latest
    /\ now' = now + d
    /\ UNCHANGED <<kv, memoryCache, last, wrote, steps, call, favoritesVars>>

\* One more operation is made; the clock and the memory map stay.
Operation ==
    /\ steps < MaxOps
    /\ steps' = steps + 1
    /\ UNCHANGED <<now, call, favoritesVars>>

\* Mutant: an entry that getCached does not return is removed on the way.
StoreAfterGetEvicts(items, key, r) ==
    IF r.value = Undef THEN Drop(items, {StorageKey(key)}) ELSE items

\* The store after getCached(key, ttlMs) returned r: getItem is the only
\* call of LocalStorage that getCached makes.
StoreAfterGet(items, key, r) == items

\* getCached(key, ttlMs) returned r.
GetCachedReturns(key, ttlMs, getItemFails, r) ==
    /\ last' = [op |-> "getCached", key |-> key, ttlMs |-> ttlMs,
                failed |-> getItemFails, threw |-> r.threw, value |-> r.value,
                before |-> kv,
                at |-> now]
    /\ kv' = StoreAfterGet(kv, key, r)
    /\ UNCHANGED <<wrote, memoryCache>>

GetCached(key, ttlMs, getItemFails) ==
    /\ Operation
    /\ GetCachedReturns(key, ttlMs, getItemFails,
                        getCached(kv, key, ttlMs, now, getItemFails))

\* setCached(key, value): a rejected setItem leaves setCached as it is, no
\* handler is in between.
SetCached(key, value, setItemFails) ==
    /\ Operation
    /\ last' = [op |-> "setCached", key |-> key, value |-> value,
                failed |-> setItemFails, threw |-> setItemFails, before |-> kv,
                at |-> now]
    /\ kv' = IF setItemFails THEN kv ELSE setCached(kv, key, value, now)
    /\ wrote' = IF setItemFails THEN wrote
                ELSE Put(wrote, key, [at |-> now, value |-> value])
    /\ UNCHANGED memoryCache

RemoveCached(key, removeItemFails) ==
    /\ Operation
    /\ last' = [op |-> "removeCached", key |-> key, failed |-> removeItemFails,
                threw |-> removeItemFails, before |-> kv,
                at |-> now]
    /\ kv' = IF removeItemFails THEN kv ELSE removeCached(kv, key)
    /\ wrote' = IF removeItemFails THEN wrote ELSE Drop(wrote, {key})
    /\ UNCHANGED memoryCache

\* The removals of `keys` run together; those of `kept` reject, the others
\* take effect.  The count is returned when none rejects.
RemoveAll(name, prefix, keys, kept) ==
    /\ last' = [op |-> name, prefix |-> prefix, failed |-> kept /= {},
                threw |-> kept /= {}, count |-> Cardinality(keys), before |-> kv,
                at |-> now]
    /\ kv' = Drop(kv, keys \ kept)
    /\ wrote' = Drop(wrote, KeysStoredUnder(keys \ kept))
    /\ UNCHANGED memoryCache

\* LocalStorage.allItems rejects: nothing is removed.
ListingFails(name, prefix) ==
    /\ last' = [op |-> name, prefix |-> prefix, failed |-> TRUE, threw |-> TRUE,
                count |-> 0, before |-> kv,
                at |-> now]
    /\ UNCHANGED <<kv, wrote, memoryCache>>

\* The removals that reject: none, or one of them.
Rejections(keys) == {{}} \cup {{k} : k \in keys}

ClearCachedByPrefix(prefix) ==
    /\ Operation
    /\ \/ ListingFails("clearCachedByPrefix", prefix)
       \/ \E kept \in Rejections(ClearedByPrefix(kv, prefix)) :
              RemoveAll("clearCachedByPrefix", prefix, ClearedByPrefix(kv, prefix), kept)

ClearAllCached ==
    /\ Operation
    /\ \/ ListingFails("clearAllCached", <<>>)
       \/ \E kept \in Rejections(ClearedAll(kv)) :
              RemoveAll("clearAllCached", <<>>, ClearedAll(kv), kept)

\* ------------------------------------------------------------------------
\* Configured durations and ApiClient.request
\* ------------------------------------------------------------------------

Minute == 60 * 1000

\* getCacheThresholds(): one duration per kind of entry, and the version of
\* the graph entries.
Thresholds ==
    [GRAPH           |-> 10 * Minute,
     WEATHER         |-> 30 * Minute,
     SUNRISE         |-> 60 * Minute,
     LOCATION_SEARCH |-> 120 * Minute,
     GRAPH_VERSION   |-> <<"1", ".", "0">>]

\* What fetchJsonWithRetry and the response transformer come to: the fetch
\* fails, the data is no object, or the transformer returns `result`.
Fetched(kind, result) == [kind |-> kind, result |-> result]

FetchOutcomes ==
    { Fetched("error", Undef), Fetched("invalid", Undef),
      Fetched("ok", Null), Fetched("ok", StrV(<<"r">>)) }

RequestThrows(items) ==
    [threw |-> TRUE, value |-> Undef, items |-> items, cached |-> FALSE]

\* Mutant: the result is cached before it is validated.
AfterFetchCachesFirst(items, cacheKey, t, fetched, setItemFails) ==
    IF fetched.kind /= "ok" THEN RequestThrows(items)
    ELSE IF fetched.result.t \in {"undefined", "null"}
    THEN RequestThrows(setCached(items, cacheKey, fetched.result, t))
    ELSE IF setItemFails THEN RequestThrows(items)
    ELSE [threw |-> FALSE, value |-> fetched.result,
          items |-> setCached(items, cacheKey, fetched.result, t), cached |-> TRUE]

\* request after a cache miss.
AfterFetch(items, cacheKey, t, fetched, setItemFails) ==
    IF fetched.kind /= "ok" THEN RequestThrows(items)
    ELSE IF fetched.result.t \in {"undefined", "null"} THEN RequestThrows(items)
    ELSE IF setItemFails THEN RequestThrows(items)
    ELSE [threw |-> FALSE, value |-> fetched.result,
          items |-> setCached(items, cacheKey, fetched.result, t), cached |-> TRUE]

\* request once getCached returned `cached`.
AfterCacheRead(items, cacheKey, t, cached, fetched, setItemFails) ==
    IF Truthy(cached.value)
    THEN [threw |-> FALSE, value |-> cached.value, items |-> items, cached |-> FALSE]
    ELSE AfterFetch(items, cacheKey, t, fetched, setItemFails)

\* ApiClient.request: the result or the exception, the store afterwards, and
\* whether the result was written to the cache.
request(items, cacheKey, cacheTtl, t, getItemFails, fetched, setItemFails) ==
    AfterCacheRead(items, cacheKey, t,
                   getCached(items, cacheKey, cacheTtl, t, getItemFails),
                   fetched, setItemFails)

RequestReturns(cacheKey, getItemFails, fetched, setItemFails, r) ==
    /\ last' = [op |-> "request", key |-> cacheKey, fetched |-> fetched,
                failed |-> getItemFails \/ setItemFails,
                readFailed |-> getItemFails, writeFailed |-> setItemFails,
                threw |-> r.threw, value |-> r.value, before |-> kv,
                at |-> now]
    /\ kv' = r.items
    /\ wrote' = IF r.cached THEN Put(wrote, cacheKey, [at |-> now, value |-> r.value])
                ELSE wrote
    /\ UNCHANGED memoryCache

\* weatherApiClient.request with the cache key suffix "a".
Request(getItemFails, fetched, setItemFails) ==
    /\ Operation
    /\ RequestReturns(WeatherKey, getItemFails, fetched, setItemFails,
                      request(kv, WeatherKey, Thresholds.WEATHER, now,
                              getItemFails, fetched, setItemFails))

CacheNext ==
    \/ \E d \in {1, 2} : Tick(d, MaxTime)
    \/ \E key \in CacheKeys, ttlMs \in Ttls, fails \in BOOLEAN :
           GetCached(key, ttlMs, fails)
    \/ \E key \in CacheKeys, value \in Values, fails \in BOOLEAN :
           SetCached(key, value, fails)
    \/ \E key \in CacheKeys, fails \in BOOLEAN : RemoveCached(key, fails)
    \/ \E prefix \in Prefixes : ClearCachedByPrefix(prefix)
    \/ ClearAllCached
    \/ \E getItemFails \in BOOLEAN, fetched \in FetchOutcomes, setItemFails \in BOOLEAN :
           Request(getItemFails, fetched, setItemFails)

\* No favorite is stored and no call of the Favorites Store is made.
CacheStart == FavoritesInit({Absent}) /\ CacheInit

\* The generic TTL cache and a caller of it, one operation after the other.
CacheSpec == CacheStart /\ [][CacheNext]_vars

\* ------------------------------------------------------------------------
\* Properties of the generic TTL cache
\* ------------------------------------------------------------------------

\* The last operation was getCached and LocalStorage answered it.
ReadCache == last.op = "getCached" /\ ~last.failed

\* The text under the key of the last getCached was written by setCached and
\* nothing replaced or removed it since.
ReadOwnWrite == ReadCache /\ last.key \in DOMAIN wrote

\* C16: setCached(key, v) and at once (no time passed, nothing written in
\* between) getCached(key, ttl) with ttl > 0 returns v, for every value v
\* that JSON represents.
C16_RoundTrip ==
    ( /\ ReadOwnWrite
      /\ last.ttlMs > 0
      /\ wrote[last.key].at = last.at
      /\ JsonRepresentable(wrote[last.key].value) )
    => (~last.threw /\ last.value = wrote[last.key].value)

\* A null written at a time after the start was read back at that time.
C16_Witness ==
    /\ ReadOwnWrite
    /\ last.ttlMs > 0
    /\ last.at > 0
    /\ wrote[last.key].at = last.at
    /\ wrote[last.key].value = Null
    /\ last.value = Null

\* C17: after setCached(key, v), getCached(key, ttl) returns undefined when
\* more than ttl has passed since the write and returns v (a value JSON
\* represents) when at most ttl has passed; whatever text the store holds, a
\* value is only returned from an entry with now - savedAtMs <= ttl.
C17_Expiry ==
    /\ ReadOwnWrite
       => /\ last.at - wrote[last.key].at > last.ttlMs => last.value = Undef
          /\ ( /\ last.at - wrote[last.key].at <= last.ttlMs
               /\ JsonRepresentable(wrote[last.key].value) )
             => last.value = wrote[last.key].value
    /\ (last.op = "getCached" /\ last.value /= Undef)
       => /\ StorageKey(last.key) \in DOMAIN kv
          /\ kv[StorageKey(last.key)].k = "entry"
          /\ kv[StorageKey(last.key)].savedAtMs.t = "number"
          /\ last.at - kv[StorageKey(last.key)].savedAtMs.n <= last.ttlMs

\* An entry was read when its age was exactly a positive ttl, and came back.
C17_Witness ==
    /\ ReadOwnWrite
    /\ last.ttlMs > 0
    /\ last.at - wrote[last.key].at = last.ttlMs
    /\ last.value = StrV(<<"v">>)

\* C18 as stated: no operation of the generic cache ends with an exception,
\* a read that fails or finds unparseable text returns undefined, and
\* ApiClient.request returns the result it fetched when the cache cannot be
\* written.
C18_NoErrorSurfaces ==
    /\ last.op \in {"getCached", "setCached", "removeCached",
                    "clearCachedByPrefix", "clearAllCached"}
       => ~last.threw
    /\ (last.op = "getCached" /\ last.failed) => last.value = Undef
    /\ ( /\ last.op = "request"
         /\ last.writeFailed
         /\ last.fetched.kind = "ok"
         /\ last.fetched.result.t \notin {"undefined", "null"}
         /\ ~Truthy(getCached(last.before, last.key, Thresholds.WEATHER, last.at,
                              last.readFailed).value) )
       => (~last.threw /\ last.value = last.fetched.result)

\* The keys of m that start with `cache:` followed by prefix.
CacheKeysWith(m, prefix) ==
    {k \in DOMAIN m : StartsWith(k, <<"c", "a", "c", "h", "e", ":">> \o prefix)}

\* m and n hold the same text under every key outside ks.
SameOutside(m, n, ks) ==
    /\ DOMAIN n \ ks = DOMAIN m \ ks
    /\ \A k \in DOMAIN m \ ks : n[k] = m[k]

\* C19: clearCachedByPrefix(p) removes the keys that start with `cache:` + p
\* and no other, clearAllCached the keys that start with `cache:` and no
\* other; each returns the number of keys it removed; every other key keeps
\* its text.
C19_ClearsExactlyThePrefix ==
    (last.op \in {"clearCachedByPrefix", "clearAllCached"} /\ ~last.failed)
    => /\ DOMAIN kv = DOMAIN last.before \ CacheKeysWith(last.before, last.prefix)
       /\ SameOutside(last.before, kv, CacheKeysWith(last.before, last.prefix))
       /\ last.count = Cardinality(CacheKeysWith(last.before, last.prefix))
       /\ ~last.threw

\* clearCachedByPrefix("graph:") removed an entry and left a key that reads
\* `graph:x` without the namespace, the favorites and another cache entry.
C19_Witness ==
    /\ last.op = "clearCachedByPrefix" /\ ~last.failed
    /\ last.prefix = GraphPrefix
    /\ last.count = 1
    /\ GraphKey \in DOMAIN kv
    /\ STORAGE_KEY \in DOMAIN kv
    /\ StorageKey(WeatherKey) \in DOMAIN kv
    /\ StorageKey(GraphKey) \notin DOMAIN kv

\* ------------------------------------------------------------------------
\* CacheManager (memory map in front of the generic TTL cache)
\* ------------------------------------------------------------------------

\* Most operations made in one behaviour of the cache manager.
ManagerMaxOps == 3

memoryCacheTtl == 5 * 60 * 1000

SunrisePrefix == <<"s", "u", "n", "r", "i", "s", "e", ":">>

LocationPrefix == <<"l", "o", "c", "a", "t", "i", "o", "n", ":">>

WeatherPrefix == <<"w", "e", "a", "t", "h", "e", "r", ":">>

SunriseKey == SunrisePrefix \o <<"s">>

LocationKey == LocationPrefix \o <<"q">>

ManagerKeys == {GraphKey, WeatherKey, SunriseKey, LocationKey, ShortKey}

\* The optional argument ttlMs: left out, zero, or one millisecond.
ManagerTtls == {Undef, NumV(0), NumV(1)}

getDefaultTtl(key) ==
    IF StartsWith(key, GraphPrefix) THEN Thresholds.GRAPH
    ELSE IF StartsWith(key, WeatherPrefix) THEN Thresholds.WEATHER
    ELSE IF StartsWith(key, SunrisePrefix) THEN Thresholds.SUNRISE
    ELSE IF StartsWith(key, LocationPrefix) THEN Thresholds.LOCATION_SEARCH
    ELSE Thresholds.WEATHER

\* ttlMs || this.getDefaultTtl(key)
PersistentTtl(key, ttlMs) == IF Truthy(ttlMs) THEN ttlMs.n ELSE getDefaultTtl(key)

MemoryEntry(value, timestamp) == [value |-> value, timestamp |-> timestamp]

\* Mutant: a memory entry is still served when its age equals the memory TTL.
MemoryHitAtTtl(memory, key, t) ==
    /\ key \in DOMAIN memory
    /\ t - memory[key].timestamp <= memoryCacheTtl

\* The memory map holds the key and the entry is younger than the memory TTL.
MemoryHit(memory, key, t) ==
    /\ key \in DOMAIN memory
    /\ t - memory[key].timestamp < memoryCacheTtl

\* get once the persistent cache answered with persistentValue; the expired
\* memory entry is gone by then.
AfterPersistentRead(memory, key, t, persistentValue) ==
    IF persistentValue /= Undef
    THEN [value |-> persistentValue, storeRead |-> TRUE,
          memory |-> Put(memory, key, MemoryEntry(persistentValue, t))]
    ELSE [value |-> Undef, storeRead |-> TRUE, memory |-> memory]

\* CacheManager.get: the value returned, whether the store was read, and the
\* memory map afterwards.
CacheManagerGet(memory, items, key, ttlMs, t, getItemFails) ==
    IF MemoryHit(memory, key, t)
    THEN [value |-> memory[key].value, storeRead |-> FALSE, memory |-> memory]
    ELSE AfterPersistentRead(Drop(memory, {key}), key, t,
             getCached(items, key, PersistentTtl(key, ttlMs), t, getItemFails).value)

\* The stores the manager starts on: no cache entry, or one entry per kind
\* of key, all written at time 0.
ManagerStores ==
    { OutsideCache,
      [k \in DOMAIN OutsideCache \cup {StorageKey(key) : key \in ManagerKeys} |->
          IF k \in DOMAIN OutsideCache THEN OutsideCache[k]
          ELSE EntryText(NumV(0), StrV(<<"p">>))] }

ManagerInit ==
    /\ kv \in ManagerStores
    /\ now = 0
    /\ memoryCache = EmptyMap
    /\ last = [op |-> "none"]
    /\ wrote = EmptyMap
    /\ steps = 0
    /\ call = NoCall

ManagerOperation ==
    /\ steps < ManagerMaxOps
    /\ steps' = steps + 1
    /\ UNCHANGED <<call, favoritesVars>>

\* Time passes between two operations.
Elapse(d) ==
    /\ ManagerOperation
    /\ now' = now + d
    /\ UNCHANGED <<kv, memoryCache, last, wrote>>

\* What a get remembers of the operation before it: its name and key.
ManagerPrevious ==
    IF last.op \in {"get", "set", "clear"}
    THEN [op |-> last.op, key |-> last.key, failed |-> last.failed, at |-> last.at]
    ELSE [op |-> last.op, key |-> <<>>, failed |-> FALSE, at |-> 0]

ManagerGetReturns(key, ttlMs, getItemFails, r) ==
    /\ last' = [op |-> "get", key |-> key, ttlMs |-> ttlMs,
                failed |-> getItemFails, threw |-> FALSE, value |-> r.value,
                storeRead |-> r.storeRead, before |-> kv,
                memoryBefore |-> memoryCache, at |-> now,
                prev |-> ManagerPrevious]
    /\ memoryCache' = r.memory
    /\ UNCHANGED <<kv, wrote, now>>

ManagerGet(key, ttlMs, getItemFails) ==
    /\ ManagerOperation
    /\ ManagerGetReturns(key, ttlMs, getItemFails,
           CacheManagerGet(memoryCache, kv, key, ttlMs, now, getItemFails))

\* CacheManager.set: the memory map is written first, then the store; a
\* rejected setItem leaves set with the memory entry in place.
ManagerSet(key, value, setItemFails) ==
    /\ ManagerOperation
    /\ last' = [op |-> "set", key |-> key, value |-> value,
                failed |-> setItemFails, threw |-> setItemFails, before |-> kv,
                memoryBefore |-> memoryCache, at |-> now]
    /\ memoryCache' = Put(memoryCache, key, MemoryEntry(value, now))
    /\ kv' = IF setItemFails THEN kv ELSE setCached(kv, key, value, now)
    /\ wrote' = IF setItemFails THEN wrote
                ELSE Put(wrote, key, [at |-> now, value |-> value])
    /\ UNCHANGED now

\* Mutant: clear empties the memory map.
CacheManagerClearAll(memory, key) == EmptyMap

\* CacheManager.clear: this.memoryCache.delete(key); the store is not
\* touched.
CacheManagerClear(memory, key) == Drop(memory, {key})

ManagerClear(key) ==
    /\ ManagerOperation
    /\ last' = [op |-> "clear", key |-> key, failed |-> FALSE, threw |-> FALSE,
                before |-> kv, memoryBefore |-> memoryCache, at |-> now]
    /\ memoryCache' = CacheManagerClear(memoryCache, key)
    /\ UNCHANGED <<kv, wrote, now>>

ClearMemoryCache ==
    /\ ManagerOperation
    /\ last' = [op |-> "clearMemoryCache", failed |-> FALSE, threw |-> FALSE,
                before |-> kv, memoryBefore |-> memoryCache, at |-> now]
    /\ memoryCache' = EmptyMap
    /\ UNCHANGED <<kv, wrote, now>>

\* The durations after which something changes for some key.
ManagerDelays ==
    {1, memoryCacheTtl - 1, memoryCacheTtl, Thresholds.GRAPH, Thresholds.WEATHER,
     Thresholds.SUNRISE, Thresholds.LOCATION_SEARCH}

ManagerNext ==
    \/ \E d \in ManagerDelays : Elapse(d)
    \/ \E key \in ManagerKeys, ttlMs \in ManagerTtls, fails \in BOOLEAN :
           ManagerGet(key, ttlMs, fails)
    \/ \E key \in ManagerKeys, value \in {Null, StrV(<<"v">>)}, fails \in BOOLEAN :
           ManagerSet(key, value, fails)
    \/ \E key \in ManagerKeys : ManagerClear(key)
    \/ ClearMemoryCache
    \/ \E key \in CacheKeys, value \in Values : SetCached(key, value, FALSE)
    \/ \E key \in CacheKeys : RemoveCached(key, FALSE)

\* No favorite is stored and no call of the Favorites Store is made.
ManagerStart == FavoritesInit({Absent}) /\ ManagerInit

\* The cache manager, and writers of the generic cache beside it.
ManagerSpec == ManagerStart /\ [][ManagerNext]_vars

C20_MemoryHitWitness ==
    /\ last.op = "get"
    /\ ~last.storeRead
    /\ last.ttlMs = NumV(1)
    /\ last.at - last.memoryBefore[last.key].timestamp = memoryCacheTtl - 1

\* ------------------------------------------------------------------------
\* Graph cache: requests
\* ------------------------------------------------------------------------

\* Most graph cache operations made in one behaviour.
GraphMaxOps == 2

Detailed == <<"d", "e", "t", "a", "i", "l", "e", "d">>

Summary == <<"s", "u", "m", "m", "a", "r", "y">>

LocIdA == <<"i", "d", ":", "a">>

LocIdAB == <<"i", "d", ":", "a", ":", "b">>

LocOsm7 == <<"o", "s", "m", ":", "7">>

LocOsm71 == <<"o", "s", "m", ":", "7", "1">>

LocationKeys == {LocIdA, LocIdAB, LocOsm7, LocOsm71}

Date1 == <<"d", "1">>

Date2 == <<"d", "2">>

Entry(time) == [time |-> time]

NoSunTimes == [def |-> FALSE, entries |-> <<>>]

SunTimesOn(date) ==
    [def |-> TRUE, entries |-> <<[date |-> date, sunrise |-> <<"r">>, sunset |-> <<"s">>]>>]

\* A 48-hour request for Oslo: two entries, no sun times, no target date.
BaseRequest ==
    [locationKey |-> LocIdA, mode |-> Detailed,
     series |-> <<Entry(<<"t", "1">>), Entry(<<"t", "2">>)>>,
     name |-> <<"O", "s", "l", "o">>, hours |-> 48, sunByDate |-> NoSunTimes,
     targetDate |-> Missing, appearance |-> Light]

\* The base request and requests that differ from it in one or two
\* arguments.
Requests ==
    { BaseRequest,
      [BaseRequest EXCEPT !.hours = 24],
      [BaseRequest EXCEPT !.series = <<Entry(<<"t", "1">>)>>],
      [BaseRequest EXCEPT !.series = <<Entry(<<"t", "1">>), Entry(<<"t", "3">>)>>],
      [BaseRequest EXCEPT !.series = <<Entry(<<"t", "0">>), Entry(<<"t", "2">>)>>],
      [BaseRequest EXCEPT !.name = <<"O", "s", "l", "o", " ", "S">>],
      [BaseRequest EXCEPT !.name = <<NonLatin1Char, "o", "d", "z">>],
      [BaseRequest EXCEPT !.sunByDate = SunTimesOn(Date1)],
      [BaseRequest EXCEPT !.targetDate = Given(Date1)],
      [BaseRequest EXCEPT !.targetDate = Given(Date1),
                          !.series = <<Entry(<<"t", "1">>)>>],
      [BaseRequest EXCEPT !.locationKey = LocIdAB, !.mode = Summary],
      [BaseRequest EXCEPT !.locationKey = LocOsm7, !.appearance = Dark],
      [BaseRequest EXCEPT !.locationKey = LocOsm71, !.targetDate = Given(Date2)] }

\* generateDataHash of each request, computed once.
DataHashes ==
    [q \in Requests |-> generateDataHash(q.series, q.name, q.hours, q.sunByDate)]

DataHashOf(q) == DataHashes[q]

\* ------------------------------------------------------------------------
\* Graph cache (graph-cache.ts): lookup, store, render-and-store
\* ------------------------------------------------------------------------

\* s.includes(sub)
Includes(s, sub) ==
    \E i \in 1..(Len(s) - Len(sub) + 1) : SubSeq(s, i, i + Len(sub) - 1) = sub

\* s.endsWith(suffix)
EndsWith(s, suffix) ==
    /\ Len(s) >= Len(suffix)
    /\ SubSeq(s, Len(s) - Len(suffix) + 1, Len(s)) = suffix

\* A GraphCacheEntry.
GraphCacheEntry(markdown, version, dataHash, generatedAt) ==
    [t |-> "object", markdown |-> markdown, version |-> version,
     dataHash |-> dataHash, generatedAt |-> generatedAt]

\* Mutant: the stored entry is returned whatever its content hash.
EntryMarkdownAnyHash(cached, dataHash) ==
    IF ~Truthy(cached) THEN Undef
    ELSE IF cached.t /= "object" THEN Undef
    ELSE IF cached.version /= Thresholds.GRAPH_VERSION THEN Undef
    ELSE StrV(cached.markdown)

\* getCachedGraph once getCached returned `cached`.
EntryMarkdown(cached, dataHash) ==
    IF ~Truthy(cached) THEN Undef
    ELSE IF cached.t /= "object" THEN Undef
    ELSE IF cached.version /= Thresholds.GRAPH_VERSION THEN Undef
    ELSE IF cached.dataHash /= dataHash THEN Undef
    ELSE StrV(cached.markdown)

\* The arguments of a graph request q: locationKey, mode, series, name,
\* hours, sunByDate, targetDate, and the appearance of the environment.
CacheKeyOf(q, dataHash) ==
    generateGraphCacheKey(q.locationKey, q.mode, q.targetDate, dataHash, q.appearance)

\* The try block of getCachedGraph, `hashed` being what generateDataHash
\* gave or threw.
getCachedGraphTry(items, q, hashed, t, getItemFails) ==
    IF hashed.threw THEN Thrown
    ELSE Value(EntryMarkdown(
             getCached(items, CacheKeyOf(q, hashed.s), Thresholds.GRAPH, t,
                       getItemFails).value,
             hashed.s))

\* getCachedGraph: the markdown, or undefined; an exception is caught.
getCachedGraph(items, q, t, getItemFails) ==
    getCachedCatch(getCachedGraphTry(items, q, DataHashOf(q), t, getItemFails)).value

\* Mutant: the graph is stored under its key without a content hash.
setCachedGraphTryNoHash(items, q, hashed, markdown, t, setItemFails) ==
    IF hashed.threw \/ setItemFails THEN items
    ELSE setCached(items, CacheKeyOf(q, hashed.s),
                   GraphCacheEntry(markdown, Thresholds.GRAPH_VERSION, <<>>, t), t)

\* setCachedGraph: an exception of generateDataHash or of setCached is
\* caught and the store stays as it was.
setCachedGraphTry(items, q, hashed, markdown, t, setItemFails) ==
    IF hashed.threw \/ setItemFails THEN items
    ELSE setCached(items, CacheKeyOf(q, hashed.s),
                   GraphCacheEntry(markdown, Thresholds.GRAPH_VERSION, hashed.s, t), t)

setCachedGraph(items, q, markdown, t, setItemFails) ==
    setCachedGraphTry(items, q, DataHashOf(q), markdown, t, setItemFails)

\* const title = targetDate ? "1-day forecast" : mode === "detailed" ? ...
TitleOf(q) ==
    IF q.targetDate.def /\ q.targetDate.s /= <<>> THEN <<"1", "d">>
    ELSE IF q.mode = <<"d", "e", "t", "a", "i", "l", "e", "d">> THEN <<"4", "8", "h">>
    ELSE <<"9", "d">>

\* buildGraphMarkdown(name, series, hours, { title, ... }).markdown: a text
\* that is never empty and follows the title, the name, the hours and the
\* number of entries.
buildGraphMarkdown(name, series, hours, title) ==
    title \o <<" ">> \o name \o <<" ">> \o IntDigits(hours) \o <<" ">> \o IntDigits(Len(series))

\* generateAndCacheGraph after the cache was asked (or bypassed): `cached`
\* is what getCachedGraph returned, undefined when it was bypassed.
AfterGraphLookup(items, q, cached, t, setItemFails) ==
    IF Truthy(cached)
    THEN [value |-> cached, rendered |-> FALSE, items |-> items]
    ELSE [value |-> StrV(buildGraphMarkdown(q.name, q.series, q.hours, TitleOf(q))),
          rendered |-> TRUE,
          items |-> setCachedGraph(items, q,
                        buildGraphMarkdown(q.name, q.series, q.hours, TitleOf(q)),
                        t, setItemFails)]

\* Mutant: the cache is never asked.
generateAndCacheGraphAlways(items, q, forceRegenerate, t, getItemFails, setItemFails) ==
    AfterGraphLookup(items, q, Undef, t, setItemFails)

generateAndCacheGraph(items, q, forceRegenerate, t, getItemFails, setItemFails) ==
    AfterGraphLookup(items, q,
        IF forceRegenerate THEN Undef ELSE getCachedGraph(items, q, t, getItemFails),
        t, setItemFails)

\* ------------------------------------------------------------------------
\* Graph cache: invalidation
\* ------------------------------------------------------------------------

GraphStoragePrefix == <<"c", "a", "c", "h", "e", ":", "g", "r", "a", "p", "h", ":">>

\* storageKey.slice("cache:".length)
InternalKey(storageKey) == SubSeq(storageKey, Len(KEY_PREFIX) + 1, Len(storageKey))

\* The keys clearLocationGraphCache(locationKey) hands to removeItem.
LocationGraphKeys(items, locationKey) ==
    ClearedByPrefix(items, GraphPrefix \o locationKey \o <<":">>)

\* The keys invalidateModeGraphCache(mode) hands to removeItem.
ModeGraphKeys(items, mode) ==
    {k \in DOMAIN items :
        /\ StartsWith(k, GraphStoragePrefix)
        /\ Includes(InternalKey(k), <<":">> \o mode)}

\* The keys invalidateDateGraphCache(targetDate) hands to removeItem.
DateGraphKeys(items, targetDate) ==
    {k \in DOMAIN items :
        /\ StartsWith(k, GraphStoragePrefix)
        /\ \/ EndsWith(InternalKey(k), <<":">> \o targetDate)
           \/ Includes(InternalKey(k), <<":">> \o targetDate \o <<":">>)}

\* The keys clearAllGraphCache hands to removeItem.
AllGraphKeys(items) == ClearedByPrefix(items, GraphPrefix)

\* Mutant: an invalidation that logs and removes nothing.
InvalidatedKeysLogOnly(items, kind, arg) == {}

\* The keys an invalidation of the given kind removes.
InvalidatedKeys(items, kind, arg) ==
    CASE kind = "location" -> LocationGraphKeys(items, arg)
      [] kind = "mode"     -> ModeGraphKeys(items, arg)
      [] kind = "date"     -> DateGraphKeys(items, arg)
      [] kind = "all"      -> AllGraphKeys(items)

\* ------------------------------------------------------------------------
\* Graph cache: operations
\* ------------------------------------------------------------------------

\* The requests whose graphs an earlier session left in the store.
StoredRequests ==
    { BaseRequest,
      [BaseRequest EXCEPT !.targetDate = Given(Date1)],
      [BaseRequest EXCEPT !.locationKey = LocIdAB, !.mode = Summary],
      [BaseRequest EXCEPT !.locationKey = LocOsm7, !.appearance = Dark],
      [BaseRequest EXCEPT !.locationKey = LocOsm71, !.targetDate = Given(Date2)] }

\* The store with the graphs of the requests qs, rendered and cached at t.
RECURSIVE WithGraphs(_, _, _)
WithGraphs(items, qs, t) ==
    IF qs = {} THEN items
    ELSE WithGraphs(
             setCachedGraph(items, CHOOSE q \in qs : TRUE,
                 buildGraphMarkdown((CHOOSE q \in qs : TRUE).name,
                                    (CHOOSE q \in qs : TRUE).series,
                                    (CHOOSE q \in qs : TRUE).hours,
                                    TitleOf(CHOOSE q \in qs : TRUE)),
                 t, FALSE),
             qs \ {CHOOSE q \in qs : TRUE}, t)

\* An entry of an older schema version under the key of request q.
WithOldVersion(items, q, hashed) ==
    Put(items, StorageKey(CacheKeyOf(q, hashed.s)),
        EntryText(NumV(0), GraphCacheEntry(<<"o", "l", "d">>, <<"0", ".", "9">>, hashed.s, 0)))

\* A cached weather response beside the graphs.
WeatherCached == Put(OutsideCache, StorageKey(WeatherKey), EntryText(NumV(0), StrV(<<"w">>)))

GraphStores ==
    { WeatherCached,
      WithOldVersion(WithGraphs(WeatherCached, StoredRequests, 0),
                     [BaseRequest EXCEPT !.sunByDate = SunTimesOn(Date1)],
                     DataHashOf([BaseRequest EXCEPT !.sunByDate = SunTimesOn(Date1)])) }

GraphInit ==
    /\ kv \in GraphStores
    /\ now = 0
    /\ memoryCache = EmptyMap
    /\ last = [op |-> "none"]
    /\ wrote = EmptyMap
    /\ steps = 0
    /\ call = NoCall

\* Mutant: the catch block throws the rejection on.
GraphRethrow(rejected) == rejected

\* catch (error) { DebugLogger.warn(...); } of the functions of the graph
\* cache: whatever was thrown in the try block, the function returns.
GraphCatch(rejected) == FALSE

GraphOperation ==
    /\ steps < GraphMaxOps
    /\ steps' = steps + 1
    /\ UNCHANGED <<now, memoryCache, wrote, call, favoritesVars>>

\* What the next operation remembers of the one before: a graph request and
\* its outcome, or nothing.
Previous ==
    IF last.op \in {"getCachedGraph", "generateAndCacheGraph"}
    THEN [def |-> TRUE, op |-> last.op, request |-> last.request, hash |-> last.hash,
          value |-> last.value, failed |-> last.failed, at |-> last.at]
    ELSE [def |-> FALSE]

GetCachedGraph(q, getItemFails) ==
    /\ GraphOperation
    /\ last' = [op |-> "getCachedGraph", request |-> q, hash |-> DataHashOf(q),
                failed |-> getItemFails,
                threw |-> GraphCatch(getCachedGraphTry(kv, q, DataHashOf(q), now,
                                                       getItemFails).threw),
                value |-> getCachedGraph(kv, q, now, getItemFails),
                rendered |-> FALSE, force |-> FALSE,
                before |-> kv, at |-> now, prev |-> Previous]
    /\ UNCHANGED kv

GenerateAndCacheGraphReturns(q, forceRegenerate, getItemFails, setItemFails, r) ==
    /\ last' = [op |-> "generateAndCacheGraph", request |-> q, hash |-> DataHashOf(q),
                failed |-> getItemFails \/ setItemFails,
                threw |-> r.rendered /\ GraphCatch(setItemFails \/ DataHashOf(q).threw),
                value |-> IF r.rendered /\ GraphCatch(setItemFails \/ DataHashOf(q).threw)
                          THEN Undef ELSE r.value,
                rendered |-> r.rendered, force |-> forceRegenerate,
                before |-> kv, at |-> now, prev |-> Previous]
    /\ kv' = r.items

GenerateAndCacheGraph(q, forceRegenerate, getItemFails, setItemFails) ==
    /\ GraphOperation
    /\ GenerateAndCacheGraphReturns(q, forceRegenerate, getItemFails, setItemFails,
           generateAndCacheGraph(kv, q, forceRegenerate, now, getItemFails, setItemFails))

\* An invalidation of the graph cache, called directly or through the
\* useGraphCache hook, which awaits the same function.  LocalStorage.allItems
\* rejects, or the removals of `kept` reject; either way the rejection is
\* caught and logged.
Invalidate(kind, arg, viaHook, listingFails, kept) ==
    /\ GraphOperation
    /\ last' = [op |-> "invalidate", kind |-> kind, arg |-> arg, viaHook |-> viaHook,
                failed |-> listingFails \/ kept /= {},
                threw |-> GraphCatch(listingFails \/ kept /= {}),
                before |-> kv, at |-> now]
    /\ kv' = IF listingFails THEN kv ELSE Drop(kv, InvalidatedKeys(kv, kind, arg) \ kept)

\* Through the hook, directly, directly with allItems rejecting, and directly
\* with one removal rejecting.
InvalidateAny(kind, arg) ==
    \/ Invalidate(kind, arg, TRUE, FALSE, {})
    \/ Invalidate(kind, arg, FALSE, TRUE, {})
    \/ \E kept \in Rejections(InvalidatedKeys(kv, kind, arg)) :
           Invalidate(kind, arg, FALSE, FALSE, kept)

\* maxAgeMs: number = 24 * 60 * 60 * 1000
DefaultMaxAgeMs == 24 * 60 * 60 * 1000

\* Mutant: an entry is removed once its age reaches the maximum.
CleanupRemovesAtAge(raw, maxAgeMs, t) ==
    IF raw.k \in {"garbage", "empty"} THEN TRUE
    ELSE IF raw.k = "entry"
         THEN raw.savedAtMs.t = "number" /\ t - raw.savedAtMs.n >= maxAgeMs
         ELSE FALSE

\* The body of the loop of cleanupOldGraphCache on the text raw: a text that
\* JSON.parse rejects is removed in the catch block, a parsed entry when its
\* savedAtMs is a number and older than maxAgeMs.
CleanupRemoves(raw, maxAgeMs, t) ==
    IF raw.k \in {"garbage", "empty"} THEN TRUE
    ELSE IF raw.k = "entry"
         THEN raw.savedAtMs.t = "number" /\ t - raw.savedAtMs.n > maxAgeMs
         ELSE FALSE

\* The storage keys the sweep removes at time t.
OldGraphKeys(items, maxAgeMs, t) ==
    {k \in PrefixedKeys(items, GraphStoragePrefix) : CleanupRemoves(items[k], maxAgeMs, t)}

\* cleanupOldGraphCache returned count after the removals of `removed`.
CleanupReturns(maxAgeMs, failed, removed, count) ==
    /\ last' = [op |-> "cleanupOldGraphCache", maxAgeMs |-> maxAgeMs, failed |-> failed,
                threw |-> GraphCatch(failed), count |-> count, removed |-> removed,
                before |-> kv, at |-> now]
    /\ kv' = Drop(kv, removed)
    /\ wrote' = Drop(wrote, KeysStoredUnder(removed))

\* cleanupOldGraphCache(maxAgeMs) among the graph operations: answered
\* throughout, with allItems rejecting, and with the removal of the last key
\* rejecting in the try block and in the catch block.
GraphCleanup(maxAgeMs) ==
    /\ GraphOperation
    /\ \/ CleanupReturns(maxAgeMs, FALSE, OldGraphKeys(kv, maxAgeMs, now),
                         Cardinality(OldGraphKeys(kv, maxAgeMs, now)))
       \/ CleanupReturns(maxAgeMs, TRUE, {}, 0)
       \/ \E kept \in Rejections(OldGraphKeys(kv, maxAgeMs, now)) \ {{}} :
              CleanupReturns(maxAgeMs, TRUE, OldGraphKeys(kv, maxAgeMs, now) \ kept, 0)

\* forceRegenerate and the rejections tried with it: a rejected getItem is
\* tried where the cache is read and the write goes through.
GenerateCases ==
    {how \in [forceRegenerate : BOOLEAN, getItemFails : BOOLEAN, setItemFails : BOOLEAN] :
        ~(how.getItemFails /\ (how.forceRegenerate \/ how.setItemFails))}

GraphNext ==
    \/ \E d \in {Thresholds.GRAPH, Thresholds.GRAPH + 1} : Tick(d, Thresholds.GRAPH + 1)
    \/ \E q \in Requests, fails \in BOOLEAN : GetCachedGraph(q, fails)
    \/ \E q \in Requests, how \in GenerateCases :
           GenerateAndCacheGraph(q, how.forceRegenerate, how.getItemFails, how.setItemFails)
    \/ \E locationKey \in LocationKeys : InvalidateAny("location", locationKey)
    \/ \E mode \in {Detailed, Summary} : InvalidateAny("mode", mode)
    \/ \E targetDate \in {Date1, Date2} : InvalidateAny("date", targetDate)
    \/ InvalidateAny("all", <<>>)
    \/ \E maxAgeMs \in {Thresholds.GRAPH} : GraphCleanup(maxAgeMs)

\* No favorite is stored and no call of the Favorites Store is made.
GraphStart == FavoritesInit({Absent}) /\ GraphInit

\* The graph cache of one session on the generic TTL cache.
GraphSpec == GraphStart /\ [][GraphNext]_vars

\* ------------------------------------------------------------------------
\* Properties of the graph cache
\* ------------------------------------------------------------------------

\* The last operation was a graph request (a lookup or a render-and-store).
GraphRequested == last.op \in {"getCachedGraph", "generateAndCacheGraph"}

\* The storage key of the last request, whose hash could be computed.
LastStorageKey == StorageKey(CacheKeyOf(last.request, last.hash.s))

\* The text the store held under the last request's key is a graph entry of
\* the current version, not older than the graph TTL of ten minutes.
LastEntryCurrent ==
    /\ ~last.hash.threw
    /\ LastStorageKey \in DOMAIN last.before
    /\ last.before[LastStorageKey].k = "entry"
    /\ last.before[LastStorageKey].savedAtMs.t = "number"
    /\ last.at - last.before[LastStorageKey].savedAtMs.n <= 600000
    /\ last.before[LastStorageKey].value.t = "object"
    /\ last.before[LastStorageKey].value.version = <<"1", ".", "0">>

\* C11: getCachedGraph returns markdown only when the stored entry is within
\* the graph TTL, has the current schema version and carries the hash freshly
\* computed from the request; then it returns that entry's markdown.  Every
\* other case is a miss and none is an error; a request for the same key with
\* a series of another length than the one whose graph generateAndCacheGraph
\* returned just before misses.
C11_ValidEntryOnly ==
    last.op = "getCachedGraph"
    => /\ ~last.threw
       /\ last.value /= Undef
          => /\ LastEntryCurrent
             /\ last.before[LastStorageKey].value.dataHash = last.hash.s
             /\ last.value = StrV(last.before[LastStorageKey].value.markdown)
       /\ ( /\ LastEntryCurrent
            /\ last.before[LastStorageKey].value.dataHash /= last.hash.s )
          => last.value = Undef
       /\ ( /\ last.prev.def
            /\ last.prev.op = "generateAndCacheGraph" /\ ~last.prev.failed
            /\ ~last.hash.threw /\ ~last.prev.hash.threw
            /\ CacheKeyOf(last.prev.request, last.prev.hash.s)
                 = CacheKeyOf(last.request, last.hash.s)
            /\ Len(last.prev.request.series) /= Len(last.request.series) )
          => last.value = Undef

\* A graph was rendered and cached for a date; the lookup for the same key
\* with a series of another length found the entry, current and within the
\* TTL, and missed.
C11_Witness ==
    /\ last.op = "getCachedGraph"
    /\ last.prev.def
    /\ last.prev.op = "generateAndCacheGraph"
    /\ Len(last.prev.request.series) /= Len(last.request.series)
    /\ LastEntryCurrent
    /\ last.before[LastStorageKey].value.dataHash = last.prev.hash.s
    /\ last.value = Undef

\* Two requests differ in what the hash is said to summarize.
DifferObservably(q1, q2) ==
    \/ Len(q1.series) /= Len(q2.series)
    \/ firstTime(q1.series) /= firstTime(q2.series)
    \/ lastTime(q1.series) /= lastTime(q2.series)
    \/ q1.name /= q2.name
    \/ q1.hours /= q2.hours
    \/ q1.sunByDate /= q2.sunByDate

\* C12 as stated: two requests that differ in the series length, the first
\* or the last timestamp, the name, the hour count or the sun times get
\* different hashes.
C12_DifferentDataDifferentHash ==
    (GraphRequested /\ last.prev.def
        /\ DifferObservably(last.request, last.prev.request))
    => last.hash /= last.prev.hash

\* C13 as stated: two requests with the same location key, mode, target
\* date, content hash and palette share one storage key, and a second
\* generateAndCacheGraph with the inputs of the first, within the graph TTL,
\* not forced, with the store answering both, returns the stored markdown
\* without rendering and without writing.
C13_SecondCallIsPureHit ==
    /\ ( /\ GraphRequested /\ last.prev.def
         /\ ~last.hash.threw /\ ~last.prev.hash.threw
         /\ last.request.locationKey = last.prev.request.locationKey
         /\ last.request.mode = last.prev.request.mode
         /\ last.request.targetDate = last.prev.request.targetDate
         /\ last.request.appearance = last.prev.request.appearance
         /\ last.hash = last.prev.hash )
       => CacheKeyOf(last.request, last.hash.s)
            = CacheKeyOf(last.prev.request, last.prev.hash.s)
    /\ ( /\ last.op = "generateAndCacheGraph"
         /\ ~last.force /\ ~last.failed
         /\ last.prev.def
         /\ last.prev.op = "generateAndCacheGraph"
         /\ ~last.prev.failed
         /\ last.prev.request = last.request
         /\ last.at - last.prev.at <= 600000 )
       => /\ ~last.rendered
          /\ kv = last.before
          /\ last.value = last.prev.value

\* The last operation was an invalidation that the store carried out.
Invalidated(kind) == last.op = "invalidate" /\ last.kind = kind /\ ~last.failed

\* The storage key of request q, whose hash can be computed.
StoredUnder(q) == StorageKey(CacheKeyOf(q, DataHashOf(q).s))

\* C14 as stated: invalidateLocationGraphCache(k) removes every key that
\* starts with cache:graph:<k>: and leaves the graph entries of every other
\* location key and all keys that are no graph entries as they were.
C14_OnlyThatLocation ==
    Invalidated("location")
    => /\ \A k \in DOMAIN last.before :
              StartsWith(k, GraphStoragePrefix \o last.arg \o <<":">>)
              => k \notin DOMAIN kv
       /\ \A q \in Requests :
              ( /\ q.locationKey /= last.arg
                /\ ~DataHashOf(q).threw
                /\ StoredUnder(q) \in DOMAIN last.before )
              => /\ StoredUnder(q) \in DOMAIN kv
                 /\ kv[StoredUnder(q)] = last.before[StoredUnder(q)]
       /\ \A k \in DOMAIN last.before :
              ~StartsWith(k, GraphStoragePrefix)
              => k \in DOMAIN kv /\ kv[k] = last.before[k]

\* Request q meets the criterion of the last invalidation.
Matches(q) ==
    CASE last.kind = "location" -> q.locationKey = last.arg
      [] last.kind = "mode"     -> q.mode = last.arg
      [] last.kind = "date"     -> q.targetDate = Given(last.arg)
      [] last.kind = "all"      -> TRUE

\* C15: after an invalidation by location, mode or date or of everything,
\* called directly or through the useGraphCache hook and carried out by the
\* store, no record of a request that meets its criterion is left in the
\* store, a getCachedGraph for such a request misses, and nothing was added
\* or changed.
C15_InvalidationDeletes ==
    (last.op = "invalidate" /\ ~last.failed)
    => /\ \A q \in Requests :
              Matches(q)
              => /\ ~DataHashOf(q).threw => StoredUnder(q) \notin DOMAIN kv
                 /\ getCachedGraph(kv, q, last.at, FALSE) = Undef
       /\ DOMAIN kv \subseteq DOMAIN last.before
       /\ \A k \in DOMAIN kv : kv[k] = last.before[k]

\* The hook's invalidateDate removed the graph cached for that date and left
\* the graph of another date.
C15_Witness ==
    /\ Invalidated("date") /\ last.viaHook
    /\ \E q \in Requests :
           /\ q.targetDate = Given(last.arg)
           /\ StoredUnder(q) \in DOMAIN last.before
           /\ StoredUnder(q) \notin DOMAIN kv
    /\ \E q \in Requests :
           /\ q.targetDate.def /\ q.targetDate /= Given(last.arg)
           /\ StoredUnder(q) \in DOMAIN kv

\* ------------------------------------------------------------------------
\* Properties of CacheManager.clear and CacheManager.set
\* ------------------------------------------------------------------------

\* The TTL the last get read the persistent cache with: ttlMs when it is a
\* nonzero number, else the default of the key's prefix.
TtlOfLastGet ==
    IF last.ttlMs.t = "number" /\ last.ttlMs.n /= 0 THEN last.ttlMs.n
    ELSE IF StartsWith(last.key, GraphPrefix) THEN 600000
    ELSE IF StartsWith(last.key, SunrisePrefix) THEN 3600000
    ELSE IF StartsWith(last.key, LocationPrefix) THEN 7200000
    ELSE 1800000

\* Before the last operation the store held an entry under the operation's
\* key, written at most ttl before the operation.
StoredWithin(ttl) ==
    /\ StorageKey(last.key) \in DOMAIN last.before
    /\ last.before[StorageKey(last.key)].k = "entry"
    /\ last.before[StorageKey(last.key)].savedAtMs.t = "number"
    /\ last.at - last.before[StorageKey(last.key)].savedAtMs.n <= ttl

C21_ClearWitness ==
    /\ last.op = "clear"
    /\ last.key \in DOMAIN last.memoryBefore
    /\ last.key \notin DOMAIN memoryCache
    /\ memoryCache /= EmptyMap
    /\ StorageKey(last.key) \in DOMAIN kv

\* C22 as stated: when set(key, v) has returned or failed, the memory map
\* and the store hold the same value for key; a get(key) right after a set
\* that returned gives v.
C22_WriteThrough ==
    /\ last.op = "set"
       => /\ last.key \in DOMAIN memoryCache
          /\ StorageKey(last.key) \in DOMAIN kv
          /\ kv[StorageKey(last.key)].k = "entry"
          /\ kv[StorageKey(last.key)].value = memoryCache[last.key].value
    /\ ( /\ last.op = "get"
         /\ last.prev.op = "set" /\ last.prev.key = last.key /\ ~last.prev.failed
         /\ last.prev.at = last.at )
       => last.value = last.memoryBefore[last.key].value

\* ------------------------------------------------------------------------
\* The location identity resolver applied to raw ids and coordinates
\* ------------------------------------------------------------------------

\* The raw ids handed to the resolver: none, the empty string, ids with a
\* canonical prefix (well formed and not), placeholders, coordinate pairs,
\* digits, and other texts.
ResolverIds ==
    { Undefined, StrId(<<>>),
      StrId(<<"o", "s", "m", ":", "7">>),
      StrId(<<"o", "s", "m", ":", "x">>),
      StrId(<<"c", "o", "o", "r", "d", ":", "1", ",", "2">>),
      StrId(<<"i", "d", ":", "7">>),
      StrId(<<"i", "d", ":", "a">>),
      StrId(<<"f", "a", "v", "o", "r", "i", "t", "e", "-", "1">>),
      StrId(<<"5", "9", ".", "9", "1", "4", ",", "1", "0", ".", "7", "5", "2">>),
      StrId(<<"5", "9", ".", "9", "1", "3", "9", ",", "-", "0", ".", "0", "0", "0", "4">>),
      StrId(<<" ", "1", " ", ",", "2", ".", "5">>),
      StrId(<<"1", ",", "2", ",", "3">>),
      StrId(<<",">>),
      StrId(<<"1", ",", "x">>),
      StrId(<<"1", "2", "3">>),
      StrId(<<"0", "0", "7">>),
      StrId(<<"1", "2", "a">>),
      StrId(<<"-", "5">>),
      StrId(<<"1", ".", "5">>),
      StrId(<<" ", "7">>),
      StrId(<<"a", "b", "c">>),
      StrId(<<"O", "S", "M", ":", "7">>),
      StrId(<<"c", "o", "o", "r", "d">>) }

\* Latitudes and longitudes in model units: 0, 59.9139, 10.7522 and
\* -0.0004 (rounds to minus zero).
ResolverCoords == {0, 599139, 107522, -4}

\* The coordinates of a second call: 0 and 0.0006 (rounds up).
ResolverOtherCoords == {0, 6}

ResolverInit ==
    /\ kv = EmptyMap
    /\ now = 0
    /\ memoryCache = EmptyMap
    /\ last = [op |-> "none"]
    /\ wrote = EmptyMap
    /\ steps = 0
    /\ call = NoCall

\* No favorite is stored and no call of the Favorites Store is made.
ResolverStart == FavoritesInit({Absent}) /\ ResolverInit

\* locationKeyFromIdOrCoords(id, lat, lon) is called.
Resolve(id, lat, lon) ==
    /\ last' = [op |-> "resolve", id |-> id, lat |-> lat, lon |-> lon,
                key |-> locationKeyFromIdOrCoords(id, lat, lon)]
    /\ UNCHANGED <<kv, now, memoryCache, wrote, steps, call, favoritesVars>>

\* The key just returned is handed to the resolver as the id, with other
\* coordinates.
ResolveAgain(lat2, lon2) ==
    /\ last.op = "resolve"
    /\ last' = [op |-> "resolveAgain", id |-> last.id, lat |-> last.lat,
                lon |-> last.lon, first |-> last.key, lat2 |-> lat2, lon2 |-> lon2,
                key |-> locationKeyFromIdOrCoords(StrId(last.key), lat2, lon2)]
    /\ UNCHANGED <<kv, now, memoryCache, wrote, steps, call, favoritesVars>>

ResolverNext ==
    \/ \E id \in ResolverIds, lat \in ResolverCoords, lon \in ResolverCoords :
           Resolve(id, lat, lon)
    \/ \E lat2 \in ResolverOtherCoords, lon2 \in ResolverOtherCoords :
           ResolveAgain(lat2, lon2)

ResolverSpec == ResolverStart /\ [][ResolverNext]_vars

\* ------------------------------------------------------------------------
\* Properties of the location identity resolver
\* ------------------------------------------------------------------------

Text123 == <<"1", "2", "3">>

TextPair == <<"5", "9", ".", "9", "1", "4", ",", "1", "0", ".", "7", "5", "2">>

\* The raw id of the last call is a non-empty string.
RawIdPresent == last.id.k = "str" /\ last.id.s /= <<>>

\* The key the listed rules give for the last call, by the first rule that
\* matches.
KeyByRules(raw, lat, lon) ==
    IF StartsWith(raw, OsmPrefix) \/ StartsWith(raw, CoordPrefix)
           \/ StartsWith(raw, IdPrefix)
    THEN raw
    ELSE IF StartsWith(raw, FavoritePrefix) THEN locationKeyFromCoords(lat, lon)
    ELSE IF looksLikeLatLonPair(raw).ok
    THEN locationKeyFromCoords(looksLikeLatLonPair(raw).lat, looksLikeLatLonPair(raw).lon)
    ELSE IF \A i \in 1..Len(raw) : IsDigit(raw[i]) THEN OsmPrefix \o raw
    ELSE IdPrefix \o raw

\* C23: the resolver returns the key of the first matching rule: the raw id
\* unchanged when it starts with osm:, coord: or id:, the coordinate key of
\* the caller's (lat, lon) for a favorite- placeholder, the coordinate key of
\* the parsed pair for a "<lat>,<lon>" text, osm:<rawId> for digits,
\* id:<rawId> otherwise, and the coordinate key of (lat, lon) when the raw id
\* is absent or empty; ("123", 59.9139, 10.7522) gives osm:123 and
\* ("59.914,10.752", 0, 0) gives coord:59.914,10.752.
C23_FirstMatchingRule ==
    last.op = "resolve" =>
        /\ RawIdPresent => last.key = KeyByRules(last.id.s, last.lat, last.lon)
        /\ ~RawIdPresent => last.key = locationKeyFromCoords(last.lat, last.lon)
        /\ (last.id = StrId(Text123) /\ last.lat = 599139 /\ last.lon = 107522)
               => last.key = OsmPrefix \o Text123
        /\ (last.id = StrId(TextPair) /\ last.lat = 0 /\ last.lon = 0)
               => last.key = CoordPrefix \o TextPair

\* A "<lat>,<lon>" text has been resolved with the caller's coordinates 0, 0.
C23_Witness ==
    /\ last.op = "resolve"
    /\ last.id = StrId(TextPair)
    /\ last.lat = 0
    /\ last.lon = 0
    /\ last.key = CoordPrefix \o TextPair

\* A raw id of digits has been resolved.
C23_DigitsWitness ==
    /\ last.op = "resolve"
    /\ last.id = StrId(Text123)
    /\ last.lat = 599139
    /\ last.key = OsmPrefix \o Text123

\* C24: the resolver is idempotent on its own output: for every raw id and
\* coordinates, handing the returned key back as the id, with any other
\* coordinates, returns that key again.
C24_Idempotent ==
    last.op = "resolveAgain" => last.key = last.first

\* A coordinate key made from the caller's coordinates has been resolved
\* again with other coordinates.
C24_Witness ==
    /\ last.op = "resolveAgain"
    /\ StartsWith(last.id.s, FavoritePrefix)
    /\ last.lat = 599139
    /\ last.lat2 = 6
    /\ StartsWith(last.first, CoordPrefix)
    /\ last.key = last.first

\* A number written with exactly COORD_PRECISION decimals: [-]digits.ddd
IsFixedDecimal(u) ==
    /\ Len(u) >= COORD_PRECISION + 2
    /\ u[Len(u) - COORD_PRECISION] = "."
    /\ \A i \in 1..Len(u) : i /= Len(u) - COORD_PRECISION => IsDigit(u[i])

IsRoundedCoordinate(t) ==
    IF t /= <<>> /\ Head(t) = "-" THEN IsFixedDecimal(Tail(t)) ELSE IsFixedDecimal(t)

AfterPrefix(key, prefix) == SubSeq(key, Len(prefix) + 1, Len(key))

IsOsmKey(key) ==
    /\ StartsWith(key, OsmPrefix)
    /\ Len(key) > Len(OsmPrefix)
    /\ \A i \in (Len(OsmPrefix) + 1)..Len(key) : IsDigit(key[i])

IsCoordKey(key) ==
    /\ StartsWith(key, CoordPrefix)
    /\ Len(SplitComma(AfterPrefix(key, CoordPrefix))) = 2
    /\ IsRoundedCoordinate(SplitComma(AfterPrefix(key, CoordPrefix))[1])
    /\ IsRoundedCoordinate(SplitComma(AfterPrefix(key, CoordPrefix))[2])

IsIdKey(key) ==
    /\ StartsWith(key, IdPrefix)
    /\ Len(key) > Len(IdPrefix)
    /\ \E i \in (Len(IdPrefix) + 1)..Len(key) : ~IsDigit(key[i])

HasKeyShape(key) == IsOsmKey(key) \/ IsCoordKey(key) \/ IsIdKey(key)

C25_UnshapedWitness ==
    /\ last.op = "resolve"
    /\ last.id = StrId(<<"o", "s", "m", ":", "x">>)
    /\ last.key = <<"o", "s", "m", ":", "x">>
    /\ ~HasKeyShape(last.key)

\* ------------------------------------------------------------------------
\* fetchJsonWithRetry and the requests that use it
\* ------------------------------------------------------------------------

\* Requests made one after the other.
FetchMaxCalls == 2

DefaultTimeoutMs == 10000

DefaultRetries == 1

DefaultRetryDelayMs == 500

\* An option is given, <<v>>, or left out, <<>>.
OrDefault(option, default) == IF option = <<>> THEN default ELSE option[1]

\* Mutant: every error status is retried.
shouldRetryStatusAlways(status) == status >= 400

shouldRetryStatus(status) == status = 429 \/ (status >= 500 /\ status <= 599)

\* Errors: the name, the status an HttpError carries, and whether the
\* message holds the word "aborted".
HttpError(status) == [name |-> "Error", status |-> <<status>>, saysAborted |-> FALSE]

\* abortError(), and the DOMException fetch rejects with once its signal is
\* aborted.
AbortError == [name |-> "AbortError", status |-> <<>>, saysAborted |-> TRUE]

\* fetch rejects because the network fails.
NetworkError == [name |-> "TypeError", status |-> <<>>, saysAborted |-> FALSE]

\* res.json() rejects because the body is no JSON.
JsonError == [name |-> "SyntaxError", status |-> <<>>, saysAborted |-> FALSE]

\* An Error thrown by request or by the response transformer.
PlainError == [name |-> "Error", status |-> <<>>, saysAborted |-> FALSE]

isAbort(error) == error.name = "AbortError" \/ error.saysAborted

\* A call of request: the options as fetchJsonWithRetry reads them, the loop
\* variable, and what the call has done so far.  timeoutMs is <<>> for a
\* fetch without a timer.
NewCall(signal, aborted, timeoutMs, retries, retryDelayMs, items) ==
    [pc |-> "start", signal |-> signal, aborted |-> aborted,
     timeoutMs |-> timeoutMs, retries |-> retries, retryDelayMs |-> retryDelayMs,
     attempt |-> 0, started |-> 0, delay |-> 0,
     fetches |-> 0, outcomes |-> <<>>, durations |-> <<>>, waits |-> <<>>,
     fetchesAtAbort |-> <<>>, error |-> <<>>, value |-> Undef, before |-> items]

\* The call rejects with error.
Rejected(c, error) == [c EXCEPT !.pc = "done", !.error = <<error>>]

\* The call resolves with value.
Resolved(c, value) == [c EXCEPT !.pc = "done", !.value = value]

\* The top of the loop: throwIfAborted, the second test of the signal, and
\* the call of fetch.
StartAttempt(c, t) ==
    IF c.signal /\ c.aborted THEN Rejected(c, AbortError)
    ELSE [c EXCEPT !.pc = "fetch", !.started = t, !.fetches = @ + 1]

\* for (let attempt = 0; attempt <= retries; attempt++), and the throw after
\* the loop.
EnterLoop(c, t) ==
    IF c.attempt <= c.retries THEN StartAttempt(c, t) ELSE Rejected(c, PlainError)

\* Mutant: the wait before a retry is always retryDelayMs.
BackoffDelayFlat(retryDelayMs, attempt) == retryDelayMs

BackoffDelay(retryDelayMs, attempt) == retryDelayMs * (2 ^ attempt)

\* sleep(ms) up to its timer: it returns at once for ms <= 0, and throws when
\* the signal is aborted already.
Sleep(c, ms, t) ==
    IF ms <= 0
    THEN EnterLoop([c EXCEPT !.attempt = @ + 1, !.waits = Append(@, ms)], t)
    ELSE IF c.signal /\ c.aborted THEN Rejected(c, AbortError)
    ELSE [c EXCEPT !.pc = "sleep", !.started = t, !.delay = ms,
                   !.waits = Append(@, ms)]

\* The backoff before the next attempt.
Backoff(c, t) == Sleep(c, BackoffDelay(c.retryDelayMs, c.attempt), t)

\* The catch block of an attempt.
AfterThrow(c, error, t) ==
    IF isAbort(error) THEN Rejected(c, error)
    ELSE IF c.attempt >= c.retries THEN Rejected(c, error)
    ELSE IF error.status /= <<>> /\ ~shouldRetryStatus(error.status[1])
    THEN Rejected(c, error)
    ELSE Backoff(c, t)

\* The response of an attempt is not ok.
AfterStatus(c, status, t) ==
    IF c.attempt < c.retries /\ shouldRetryStatus(status) THEN Backoff(c, t)
    ELSE AfterThrow(c, HttpError(status), t)

\* How an attempt ended, and the status of the response if there was one.
Outcome(kind, status) == [kind |-> kind, status |-> status]

\* The attempt under way has ended with `outcome` at time t.
Ended(c, outcome, t) ==
    [c EXCEPT !.outcomes = Append(@, outcome),
              !.durations = Append(@, t - c.started)]

\* Mutant: an abort of the signal is not listened to.
OnAbortUnheard(c, t) ==
    [c EXCEPT !.aborted = TRUE, !.fetchesAtAbort = <<c.fetches>>]

\* The caller aborts the signal: the listener of the attempt aborts the
\* fetch, which rejects; the listener of sleep rejects the wait.
OnAbort(c, t) ==
    IF c.pc = "fetch"
    THEN AfterThrow(Ended([c EXCEPT !.aborted = TRUE, !.fetchesAtAbort = <<c.fetches>>],
                          Outcome("aborted", 0), t),
                    AbortError, t)
    ELSE Rejected([c EXCEPT !.aborted = TRUE, !.fetchesAtAbort = <<c.fetches>>],
                  AbortError)

\* The signal a caller passes: none, one that is not aborted, one that is
\* aborted already.
FetchSignals ==
    { [signal |-> FALSE, aborted |-> FALSE],
      [signal |-> TRUE, aborted |-> FALSE],
      [signal |-> TRUE, aborted |-> TRUE] }

TimeoutOptions == {<<>>, <<3>>}

RetriesOptions == {<<>>, <<0>>, <<2>>}

RetryDelayOptions == {<<>>, <<0>>, <<2>>}

\* The statuses of responses that are not ok.
Statuses == {404, 429, 503}

\* The time a response takes, in milliseconds.
ResponseDelays == {1, 20000}

\* What an ok response comes to in request: data that is no object, a
\* transformer that throws, that returns null or undefined, or a result.
OkOutcomes ==
    { Fetched("invalid", Undef), Fetched("threw", Undef),
      Fetched("ok", Null), Fetched("ok", Undef), Fetched("ok", StrV(<<"r">>)) }

\* Stores at the start: no weather entry, or one that is older than its TTL.
FetchStores ==
    { OutsideCache,
      Put(OutsideCache, StorageKey(WeatherKey), EntryText(NumV(0), StrV(<<"o">>))) }

FetchInit ==
    /\ kv \in FetchStores
    /\ now = Thresholds.WEATHER + 1
    /\ memoryCache = EmptyMap
    /\ last = [op |-> "none"]
    /\ wrote = EmptyMap
    /\ steps = 0
    /\ call = NoCall

\* The call goes on as c at time t, with the store `items`; a call that has
\* ended is noted.
Moves(c, items, t) ==
    /\ now' = t
    /\ call' = c
    /\ kv' = items
    /\ wrote' = IF items = kv THEN wrote
                ELSE Put(wrote, WeatherKey, [at |-> t, value |-> c.value])
    /\ last' = IF c.pc = "done"
               THEN [op |-> "request", key |-> WeatherKey, threw |-> c.error /= <<>>,
                     error |-> c.error, value |-> c.value, fetches |-> c.fetches,
                     before |-> c.before, at |-> t]
               ELSE last
    /\ UNCHANGED <<memoryCache, favoritesVars>>

\* request once getCached returned `cached`: the cached value, or the fetch.
AfterLookup(c, cached, t) ==
    IF Truthy(cached.value) THEN Resolved(c, cached.value) ELSE EnterLoop(c, t)

Idle == call.pc \in {"idle", "done"}

\* weatherApiClient.request(params, "a", transformer, options) is called.
RequestCall(s, timeoutMs, retries, retryDelayMs, getItemFails) ==
    /\ Idle
    /\ steps < FetchMaxCalls
    /\ steps' = steps + 1
    /\ Moves(AfterLookup(NewCall(s.signal, s.aborted,
                                 <<OrDefault(timeoutMs, DefaultTimeoutMs)>>,
                                 OrDefault(retries, DefaultRetries),
                                 OrDefault(retryDelayMs, DefaultRetryDelayMs), kv),
                         getCached(kv, WeatherKey, Thresholds.WEATHER, now, getItemFails),
                         now),
             kv, now)

\* getWeather(lat, lon) of the client that calls fetch itself: one fetch,
\* no signal, no timer.
GetWeatherDirect(getItemFails) ==
    /\ Idle
    /\ steps < FetchMaxCalls
    /\ steps' = steps + 1
    /\ Moves(AfterLookup(NewCall(FALSE, FALSE, <<>>, 0, 0, kv),
                         getCached(kv, WeatherKey, Thresholds.WEATHER, now, getItemFails),
                         now),
             kv, now)

\* A response after d milliseconds comes before the timer of the attempt.
BeforeTimer(d) == IF call.timeoutMs = <<>> THEN TRUE ELSE d < call.timeoutMs[1]

\* request after fetchJsonWithRetry returned the data: r is AfterFetch.
Completed(c, r) == IF r.threw THEN Rejected(c, PlainError) ELSE Resolved(c, r.value)

CompletesWith(c, r, t) == Moves(Completed(c, r), r.items, t)

\* The attempt gets an ok response with a JSON body.
RespondOk(d, fetched, setItemFails) ==
    /\ call.pc = "fetch"
    /\ BeforeTimer(d)
    /\ CompletesWith(Ended(call, Outcome("ok", 200), now + d),
                     AfterFetch(kv, WeatherKey, now + d, fetched, setItemFails),
                     now + d)
    /\ UNCHANGED steps

\* The attempt gets a response that is not ok.
RespondStatus(d, status) ==
    /\ call.pc = "fetch"
    /\ BeforeTimer(d)
    /\ Moves(AfterStatus(Ended(call, Outcome("status", status), now + d), status, now + d), kv, now + d)
    /\ UNCHANGED steps

\* fetch rejects, or the body of an ok response is no JSON.
AttemptThrows(d, error) ==
    /\ call.pc = "fetch"
    /\ BeforeTimer(d)
    /\ Moves(AfterThrow(Ended(call, Outcome("threw", 0), now + d), error, now + d), kv, now + d)
    /\ UNCHANGED steps

\* setTimeout(() => controller.abort(), timeoutMs) fires: fetch rejects with
\* an AbortError.
Timeout ==
    /\ call.pc = "fetch"
    /\ call.timeoutMs /= <<>>
    /\ Moves(AfterThrow(Ended(call, Outcome("timeout", 0), call.started + call.timeoutMs[1]),
                        AbortError, call.started + call.timeoutMs[1]),
             kv, call.started + call.timeoutMs[1])
    /\ UNCHANGED steps

\* The timer of sleep fires: the next round of the loop.
Wake ==
    /\ call.pc = "sleep"
    /\ Moves(EnterLoop([call EXCEPT !.attempt = @ + 1], call.started + call.delay),
             kv, call.started + call.delay)
    /\ UNCHANGED steps

\* The caller aborts the signal while the call is under way.
Abort ==
    /\ call.pc \in {"fetch", "sleep"}
    /\ call.signal
    /\ ~call.aborted
    /\ Moves(OnAbort(call, now), kv, now)
    /\ UNCHANGED steps

FetchNext ==
    \/ \E s \in FetchSignals, timeoutMs \in TimeoutOptions, retries \in RetriesOptions,
          retryDelayMs \in RetryDelayOptions, getItemFails \in BOOLEAN :
           RequestCall(s, timeoutMs, retries, retryDelayMs, getItemFails)
    \/ \E getItemFails \in BOOLEAN : GetWeatherDirect(getItemFails)
    \/ \E d \in ResponseDelays, fetched \in OkOutcomes, setItemFails \in BOOLEAN :
           RespondOk(d, fetched, setItemFails)
    \/ \E d \in ResponseDelays, status \in Statuses : RespondStatus(d, status)
    \/ \E d \in ResponseDelays, error \in {NetworkError, JsonError} : AttemptThrows(d, error)
    \/ Timeout
    \/ Wake
    \/ Abort

\* No favorite is stored and no call of the Favorites Store is made.
FetchStart == FavoritesInit({Absent}) /\ FetchInit

FetchSpec == FetchStart /\ [][FetchNext]_vars

\* ------------------------------------------------------------------------
\* Properties of fetchJsonWithRetry and request
\* ------------------------------------------------------------------------

RequestMade == call.pc /= "idle"

\* The call went through fetchJsonWithRetry, which gives every attempt a
\* timer.
ThroughHelper == RequestMade /\ call.timeoutMs /= <<>>

LastOutcome == call.outcomes[Len(call.outcomes)]

\* An attempt timed out, or was answered with 429 or a status in 500..599.
Transient(outcome) ==
    \/ outcome.kind = "timeout"
    \/ outcome.kind = "status" /\ outcome.status = 429
    \/ outcome.kind = "status" /\ outcome.status >= 500 /\ outcome.status <= 599

\* The response was a client error other than 429.
ClientError(outcome) ==
    /\ outcome.kind = "status"
    /\ outcome.status >= 400
    /\ outcome.status <= 499
    /\ outcome.status /= 429

\* A call through the helper has failed, its last attempt in a transient
\* failure, without the caller having aborted it.
SurfacedTransient ==
    /\ ThroughHelper
    /\ call.pc = "done"
    /\ call.error /= <<>>
    /\ ~call.aborted
    /\ call.outcomes /= <<>>
    /\ Transient(LastOutcome)

\* C26: a transient failure (an attempt that timed out, a 5xx or a 429
\* response) is retried while the retry budget is not used up: a call fails
\* with such a failure only after retries + 1 attempts.
C26_TransientRetried ==
    SurfacedTransient => call.fetches = call.retries + 1

\* C26 without the attempts that timed out.
C26_StatusRetried ==
    (SurfacedTransient /\ LastOutcome.kind /= "timeout")
        => call.fetches = call.retries + 1

\* An attempt timed out and the call failed with retries left.
C26_TimeoutWitness ==
    /\ SurfacedTransient
    /\ LastOutcome.kind = "timeout"
    /\ call.retries = 2
    /\ call.fetches = 1
    /\ call.error = <<AbortError>>

\* C27: a client error other than 429 is never retried: the attempt that
\* gets it is the last one and the call fails with that status, whatever the
\* retry budget; when the first attempt gets it, one fetch has been made.
C27_ClientErrorNotRetried ==
    RequestMade =>
        \A i \in 1..Len(call.outcomes) :
            ClientError(call.outcomes[i]) =>
                /\ i = Len(call.outcomes)
                /\ call.fetches = i
                /\ call.pc = "done"
                /\ call.error = <<HttpError(call.outcomes[i].status)>>

\* A call with two retries left has failed on a 404 after one fetch.
C27_Witness ==
    /\ ThroughHelper
    /\ call.retries = 2
    /\ call.outcomes = <<Outcome("status", 404)>>
    /\ call.fetches = 1
    /\ call.pc = "done"
    /\ call.error = <<HttpError(404)>>

\* The timeout of the attempts of a call, 10 s when none is set.
TimeoutOf(c) == OrDefault(c.timeoutMs, DefaultTimeoutMs)

\* C28: a call makes at most retries + 1 attempts, no attempt lasts longer
\* than timeoutMs (10 s by default), and the wait after attempt k is
\* retryDelayMs * 2^k; this holds for every weather call.
C28_BoundedAttempts ==
    RequestMade =>
        /\ call.fetches <= call.retries + 1
        /\ \A i \in 1..Len(call.durations) : call.durations[i] <= TimeoutOf(call)
        /\ \A i \in 1..Len(call.waits) :
               call.waits[i] = call.retryDelayMs * (2 ^ (i - 1))

\* C28 for the calls that go through fetchJsonWithRetry.
C28_HelperBounded ==
    ThroughHelper =>
        /\ call.fetches <= call.retries + 1
        /\ \A i \in 1..Len(call.durations) : call.durations[i] <= TimeoutOf(call)
        /\ \A i \in 1..Len(call.waits) :
               call.waits[i] = call.retryDelayMs * (2 ^ (i - 1))

\* A call through the helper has used its whole budget, with two backoffs.
C28_HelperWitness ==
    /\ ThroughHelper
    /\ call.retries = 2
    /\ call.retryDelayMs = 2
    /\ call.fetches = 3
    /\ call.waits = <<2, 4>>
    /\ call.pc = "done"

\* The attempt of a weather call that calls fetch itself lasted 20 s.
C28_UntimedWitness ==
    /\ RequestMade
    /\ call.timeoutMs = <<>>
    /\ call.durations = <<20000>>

\* C29: once the signal is aborted no attempt is pending and no backoff is
\* waited for; a call that was aborted while under way has made no fetch
\* since and has failed with AbortError, a call whose signal was aborted
\* from the start has made no fetch, and neither has written to the cache.
C29_Cancellation ==
    (RequestMade /\ call.signal /\ call.aborted) =>
        /\ call.pc = "done"
        /\ kv = call.before
        /\ IF call.fetchesAtAbort = <<>> THEN call.fetches = 0
           ELSE call.fetches = call.fetchesAtAbort[1] /\ call.error = <<AbortError>>

\* A call was aborted during the backoff after its first attempt.
C29_Witness ==
    /\ RequestMade
    /\ call.aborted
    /\ call.retries = 2
    /\ call.fetchesAtAbort = <<1>>
    /\ call.waits = <<2>>
    /\ call.outcomes = <<Outcome("status", 503)>>
    /\ call.error = <<AbortError>>

\* A call was aborted while its second attempt was pending.
C29_PendingWitness ==
    /\ RequestMade
    /\ call.aborted
    /\ call.fetches = 2
    /\ Len(call.outcomes) = 2
    /\ LastOutcome.kind = "aborted"
    /\ call.error = <<AbortError>>

\* C30: a request that has failed has left the store as it was when the
\* request was made: the entry under its key and those under other keys.
C30_FailedRequestWritesNothing ==
    (RequestMade /\ call.pc = "done" /\ call.error /= <<>>) => kv = call.before

\* A request failed after an ok response, with an older entry under its key.
C30_Witness ==
    /\ ThroughHelper
    /\ call.pc = "done"
    /\ call.error = <<PlainError>>
    /\ LastOutcome.kind = "ok"
    /\ StorageKey(WeatherKey) \in DOMAIN kv
    /\ kv = call.before

\* A request failed when its retries were used up.
C30_RetriesWitness ==
    /\ ThroughHelper
    /\ call.pc = "done"
    /\ call.fetches = 3
    /\ call.error = <<HttpError(503)>>
    /\ kv = call.before

\* ------------------------------------------------------------------------
\* The three endpoints and their response transformers
\* ------------------------------------------------------------------------

\* Calls of the endpoint functions made one after the other.
EndpointMaxCalls == 2

\* No `properties.timeseries` in a body.
NoSeries == 0 - 1

\* A JSON object as a body: a forecast document with `series` entries in
\* properties.timeseries (NoSeries: the field is absent).
ForecastBody(series) ==
    [t |-> "object", array |-> FALSE, series |-> series, rows |-> 0, finite |-> 0]

\* A JSON array as a body: `rows` place records, `finite` of them with
\* coordinates that are numbers.
PlacesBody(rows, finite) ==
    [t |-> "object", array |-> TRUE, series |-> NoSeries, rows |-> rows,
     finite |-> finite]

\* The bodies the upstream services answer with.
Bodies ==
    { StrV(<<"x">>), Null, ForecastBody(NoSeries), ForecastBody(0), ForecastBody(2),
      PlacesBody(0, 0), PlacesBody(2, 1) }

\* The transformer of getWeather: the first entry of the series.
firstEntryOf(data) ==
    IF data.series < 1 THEN Fetched("threw", Undef)
    ELSE Fetched("ok", [t |-> "object", kind |-> "entry"])

\* The transformer of getForecast: the series.
seriesOf(data) ==
    IF data.series = NoSeries THEN Fetched("threw", Undef)
    ELSE Fetched("ok", [t |-> "object", kind |-> "series", rows |-> data.series])

\* The transformer of searchLocations: one result per row; [] when the body
\* is no array.
placesOf(raw) ==
    IF ~raw.array THEN Fetched("ok", [t |-> "object", kind |-> "places", rows |-> 0,
                                      finite |-> 0])
    ELSE Fetched("ok", [t |-> "object", kind |-> "places", rows |-> raw.rows,
                        finite |-> raw.finite])

Transformed(endpoint, data) ==
    IF endpoint = "getWeather" THEN firstEntryOf(data)
    ELSE IF endpoint = "getForecast" THEN seriesOf(data)
    ELSE placesOf(data)

\* What fetchJsonWithRetry and request's checks come to for a body: the data
\* check of request, then the transformer.
FetchedBody(endpoint, fetchFails, data) ==
    IF fetchFails THEN Fetched("error", Undef)
    ELSE IF ~Truthy(data) \/ data.t /= "object" THEN Fetched("invalid", Undef)
    ELSE Transformed(endpoint, data)

ForecastKey == <<"w", "e", "a", "t", "h", "e", "r", ":", "f">>

SearchKey == <<"l", "o", "c", "a", "t", "i", "o", "n", ":", "s">>

EndpointKey(endpoint) ==
    IF endpoint = "getWeather" THEN WeatherKey
    ELSE IF endpoint = "getForecast" THEN ForecastKey
    ELSE SearchKey

EndpointTtl(endpoint) ==
    IF endpoint = "searchLocations" THEN Thresholds.LOCATION_SEARCH
    ELSE Thresholds.WEATHER

\* data.filter((p) => Number.isFinite(p.lat) && Number.isFinite(p.lon))
FiniteRows(data) == [data EXCEPT !.rows = data.finite]

\* What the endpoint function returns when request returned r.
EndpointResult(endpoint, r) ==
    IF r.threw \/ endpoint /= "searchLocations" THEN r
    ELSE [r EXCEPT !.value = FiniteRows(r.value)]

EndpointInit ==
    /\ kv = OutsideCache
    /\ now = 0
    /\ memoryCache = EmptyMap
    /\ last = [op |-> "none"]
    /\ wrote = EmptyMap
    /\ steps = 0
    /\ call = NoCall

EndpointReturns(endpoint, data, fetchFails, getItemFails, setItemFails, missed, r) ==
    /\ last' = [op |-> endpoint, key |-> EndpointKey(endpoint), body |-> data,
                fetchFailed |-> fetchFails, failed |-> getItemFails \/ setItemFails,
                missed |-> missed, threw |-> r.threw,
                value |-> EndpointResult(endpoint, r).value, before |-> kv, at |-> now]
    /\ kv' = r.items
    /\ wrote' = IF r.cached THEN Put(wrote, EndpointKey(endpoint),
                                     [at |-> now, value |-> r.value])
                ELSE wrote

\* getWeather / getForecast / searchLocations with a query that is not
\* blank: request with the endpoint's key, TTL and transformer.
EndpointCall(endpoint, data, fetchFails, getItemFails, setItemFails) ==
    /\ steps < EndpointMaxCalls
    /\ steps' = steps + 1
    /\ EndpointReturns(endpoint, data, fetchFails, getItemFails, setItemFails,
                       ~Truthy(getCached(kv, EndpointKey(endpoint), EndpointTtl(endpoint),
                                         now, getItemFails).value),
                       request(kv, EndpointKey(endpoint), EndpointTtl(endpoint), now,
                               getItemFails, FetchedBody(endpoint, fetchFails, data),
                               setItemFails))
    /\ UNCHANGED <<now, memoryCache, call, favoritesVars>>

\* searchLocations with a blank query returns [] without a request.
SearchBlank ==
    /\ steps < EndpointMaxCalls
    /\ steps' = steps + 1
    /\ last' = [op |-> "searchLocations", key |-> SearchKey, body |-> Null,
                fetchFailed |-> FALSE, failed |-> FALSE, missed |-> FALSE,
                threw |-> FALSE,
                value |-> [t |-> "object", kind |-> "places", rows |-> 0, finite |-> 0],
                before |-> kv, at |-> now]
    /\ UNCHANGED <<kv, wrote, now, memoryCache, call, favoritesVars>>

Endpoints == {"getWeather", "getForecast", "searchLocations"}

EndpointNext ==
    \/ \E endpoint \in Endpoints, data \in Bodies, fetchFails \in BOOLEAN,
          getItemFails \in BOOLEAN, setItemFails \in BOOLEAN :
           EndpointCall(endpoint, data, fetchFails, getItemFails, setItemFails)
    \/ SearchBlank
    \/ \E d \in {1} : Tick(d, 1)

\* No favorite is stored and no call of the Favorites Store is made.
EndpointStart == FavoritesInit({Absent}) /\ EndpointInit

EndpointSpec == EndpointStart /\ [][EndpointNext]_vars

\* ------------------------------------------------------------------------
\* Properties of the endpoints
\* ------------------------------------------------------------------------

\* The body lacks the top-level fields the endpoint expects: no JSON object,
\* no properties.timeseries for the weather endpoints, no array of places
\* for the search.
ShapeInvalid(endpoint, body) ==
    IF body.t /= "object" THEN TRUE
    ELSE IF endpoint = "searchLocations" THEN ~body.array
    ELSE body.series = NoSeries

\* The last call got a body from upstream.
GotBody == last.op \in Endpoints /\ last.missed /\ ~last.fetchFailed

\* C31: a response of invalid shape is raised as an error to the caller and
\* is not cached, for the weather, forecast and search endpoints.
C31_InvalidShapeRaised ==
    (GotBody /\ ShapeInvalid(last.op, last.body))
        => last.threw /\ kv = last.before

\* C31 for the two weather endpoints.
C31_WeatherShapeRaised ==
    (GotBody /\ last.op /= "searchLocations" /\ ShapeInvalid(last.op, last.body))
        => last.threw /\ kv = last.before

\* A search got a JSON object that is no array, returned the empty list and
\* cached it.
C31_SearchWitness ==
    /\ GotBody
    /\ last.op = "searchLocations"
    /\ last.body = ForecastBody(NoSeries)
    /\ ~last.threw
    /\ last.value.rows = 0
    /\ StorageKey(SearchKey) \in DOMAIN kv
    /\ StorageKey(SearchKey) \notin DOMAIN last.before

\* ------------------------------------------------------------------------
\* Graph cache: the age-based cleanup sweep
\* ------------------------------------------------------------------------

\* Most operations made in one behaviour of the sweep.
SweepMaxOps == 3

GraphKey2 == <<"g", "r", "a", "p", "h", ":", "y">>

GraphKey3 == <<"g", "r", "a", "p", "h", ":", "z">>

SweepKeys == {GraphKey, GraphKey2, GraphKey3, WeatherKey}

\* Stores at the start of the sweep: graph entries saved at 0 and at 1,
\* texts that are no entry under graph keys, and a weather entry.
SweepStores ==
    { WeatherCached,
      Put(Put(Put(WeatherCached, StorageKey(GraphKey), EntryText(NumV(0), StrV(<<"g">>))),
              StorageKey(GraphKey2), EntryText(NumV(1), StrV(<<"h">>))),
          StorageKey(GraphKey3), UnparseableText),
      Put(Put(Put(WeatherCached, StorageKey(GraphKey), EntryText(StrV(<<"x">>), NumV(1))),
              StorageKey(GraphKey2), NullText),
          StorageKey(GraphKey3), EmptyText) }

SweepInit ==
    /\ kv \in SweepStores
    /\ now = 0
    /\ memoryCache = EmptyMap
    /\ last = [op |-> "none"]
    /\ wrote = EmptyMap
    /\ steps = 0
    /\ call = NoCall

SweepOperation ==
    /\ steps < SweepMaxOps
    /\ steps' = steps + 1
    /\ UNCHANGED <<now, memoryCache, call, favoritesVars>>

\* setCached(key, value), LocalStorage.setItem succeeding.
SweepStore(key, value) ==
    /\ SweepOperation
    /\ last' = [op |-> "setCached", key |-> key, value |-> value, failed |-> FALSE,
                threw |-> FALSE, before |-> kv, at |-> now]
    /\ kv' = setCached(kv, key, value, now)
    /\ wrote' = Put(wrote, key, [at |-> now, value |-> value])

\* cleanupOldGraphCache(maxAgeMs) with LocalStorage answering every call; a
\* removal that rejects once in the try block is made again in its catch
\* block and counted there.
CleanupOldGraphCache(maxAgeMs) ==
    /\ SweepOperation
    /\ CleanupReturns(OrDefault(maxAgeMs, DefaultMaxAgeMs), FALSE,
                      OldGraphKeys(kv, OrDefault(maxAgeMs, DefaultMaxAgeMs), now),
                      Cardinality(OldGraphKeys(kv, OrDefault(maxAgeMs, DefaultMaxAgeMs), now)))

\* LocalStorage.allItems rejects: the outer catch returns 0.
CleanupListingFails(maxAgeMs) ==
    /\ SweepOperation
    /\ CleanupReturns(OrDefault(maxAgeMs, DefaultMaxAgeMs), TRUE, {}, 0)

\* The removal of one key rejects in the catch block too: the sweep ends
\* there with the keys `swept` before it removed, and the outer catch
\* returns 0.
CleanupRemovalFails(maxAgeMs, swept) ==
    /\ SweepOperation
    /\ swept /= OldGraphKeys(kv, OrDefault(maxAgeMs, DefaultMaxAgeMs), now)
    /\ CleanupReturns(OrDefault(maxAgeMs, DefaultMaxAgeMs), TRUE, swept, 0)

MaxAgeOptions == {<<>>, <<0>>, <<1>>}

SweepNext ==
    \/ \E d \in {1} : Tick(d, 2)
    \/ \E d \in {DefaultMaxAgeMs} : Tick(d, DefaultMaxAgeMs + 2)
    \/ \E key \in SweepKeys : SweepStore(key, StrV(<<"v">>))
    \/ \E maxAgeMs \in MaxAgeOptions : CleanupOldGraphCache(maxAgeMs)
    \/ \E maxAgeMs \in MaxAgeOptions : CleanupListingFails(maxAgeMs)
    \/ \E maxAgeMs \in MaxAgeOptions :
           \E swept \in SUBSET OldGraphKeys(kv, OrDefault(maxAgeMs, DefaultMaxAgeMs), now) :
               CleanupRemovalFails(maxAgeMs, swept)

\* No favorite is stored and no call of the Favorites Store is made.
SweepStart == FavoritesInit({Absent}) /\ SweepInit

\* The cleanup sweep of the graph cache among writes of the generic cache.
SweepSpec == SweepStart /\ [][SweepNext]_vars

\* ------------------------------------------------------------------------
\* Properties of the cleanup sweep
\* ------------------------------------------------------------------------

\* The last operation was a sweep that LocalStorage answered throughout.
Swept == last.op = "cleanupOldGraphCache" /\ ~last.failed

\* The age of the entry under storage key k before the last operation; it
\* has one when the text is an entry whose savedAtMs is a number.
HasAge(k) == last.before[k].k = "entry" /\ last.before[k].savedAtMs.t = "number"

AgeOf(k) == last.at - last.before[k].savedAtMs.n

IsGraphStorageKey(k) == StartsWith(k, GraphStoragePrefix)

\* C32: a sweep that LocalStorage answers removes every graph entry older
\* than maxAgeMs, keeps every parseable graph entry of age at most maxAgeMs
\* and every key that is no graph key, with the text it had, and returns
\* the number of keys it removed.
C32_CleanupByAge ==
    Swept =>
        /\ \A k \in DOMAIN last.before :
               /\ (IsGraphStorageKey(k) /\ HasAge(k) /\ AgeOf(k) > last.maxAgeMs)
                      => k \notin DOMAIN kv
               /\ (IsGraphStorageKey(k) /\ HasAge(k) /\ AgeOf(k) <= last.maxAgeMs)
                      => (k \in DOMAIN kv /\ kv[k] = last.before[k])
               /\ ~IsGraphStorageKey(k) => (k \in DOMAIN kv /\ kv[k] = last.before[k])
        /\ DOMAIN kv \subseteq DOMAIN last.before
        /\ last.count = Cardinality(DOMAIN last.before \ DOMAIN kv)

\* A sweep removed an old graph entry, kept one of exactly the maximum age
\* and kept an old weather entry.
C32_Witness ==
    /\ Swept
    /\ last.count > 0
    /\ \E k \in DOMAIN last.before :
           IsGraphStorageKey(k) /\ HasAge(k) /\ AgeOf(k) > last.maxAgeMs
    /\ \E k \in DOMAIN last.before :
           IsGraphStorageKey(k) /\ HasAge(k) /\ AgeOf(k) = last.maxAgeMs /\ last.maxAgeMs > 0
    /\ \E k \in DOMAIN last.before :
           ~IsGraphStorageKey(k) /\ HasAge(k) /\ AgeOf(k) > last.maxAgeMs

\* The default maximum age was used: an entry a day and more old went.
C32_DefaultWitness ==
    /\ Swept
    /\ last.maxAgeMs = DefaultMaxAgeMs
    /\ last.count > 0
    /\ \E k \in DOMAIN last.before : IsGraphStorageKey(k) /\ HasAge(k)
                                      /\ AgeOf(k) > DefaultMaxAgeMs

\* ------------------------------------------------------------------------
\* Storage failures in the graph cache
\* ------------------------------------------------------------------------

GraphOps == {"getCachedGraph", "generateAndCacheGraph", "invalidate", "cleanupOldGraphCache"}

\* The last operation was one of the graph cache during which a call of
\* LocalStorage rejected, or would have rejected had it been made.
GraphStorageFailed == last.op \in GraphOps /\ last.failed

\* result.markdown of buildGraphMarkdown for the request q.
FreshMarkdown(q) == StrV(buildGraphMarkdown(q.name, q.series, q.hours, TitleOf(q)))

\* C33: an operation of the graph cache during which LocalStorage rejects
\* does not throw; getCachedGraph then reports a miss, and
\* generateAndCacheGraph returns the markdown it rendered, or, when no write
\* was needed, the markdown the cache held.
C33_StorageFailureNotFatal ==
    GraphStorageFailed =>
        /\ ~last.threw
        /\ last.op = "getCachedGraph" => last.value = Undef
        /\ last.op = "generateAndCacheGraph" =>
               /\ last.rendered => last.value = FreshMarkdown(last.request)
               /\ ~last.rendered =>
                      /\ Truthy(last.value)
                      /\ last.value = getCachedGraph(last.before, last.request,
                                                     last.at, FALSE)

\* The cache read failed although the entry was there and valid: the graph
\* was rendered and returned.
C33_Witness ==
    /\ GraphStorageFailed
    /\ last.op = "generateAndCacheGraph"
    /\ ~last.force
    /\ last.rendered
    /\ Truthy(getCachedGraph(last.before, last.request, last.at, FALSE))
    /\ last.value = FreshMarkdown(last.request)

\* The cache write failed: the graph was returned and the store is as it was.
C33_WriteWitness ==
    /\ GraphStorageFailed
    /\ last.op = "generateAndCacheGraph"
    /\ last.rendered
    /\ ~Truthy(getCachedGraph(last.before, last.request, last.at, FALSE))
    /\ kv = last.before
    /\ last.value = FreshMarkdown(last.request)

\* A sweep and an invalidation ended on a rejected removal after other keys
\* were removed.
C33_SweepWitness ==
    /\ GraphStorageFailed
    /\ last.op \in {"invalidate", "cleanupOldGraphCache"}
    /\ kv /= last.before

\* ------------------------------------------------------------------------
\* 'Refresh & Clear Cache' beside a CacheManager.get
\* ------------------------------------------------------------------------

\* Most steps made in one behaviour of the refresh.
RefreshMaxOps == 6

RefreshKeys == {GraphKey, WeatherKey}

RefreshInit ==
    /\ kv \in ManagerStores
    /\ now = 0
    /\ memoryCache = EmptyMap
    /\ last = [op |-> "none"]
    /\ wrote = EmptyMap
    /\ steps = 0
    /\ call = NoCall

RefreshStep ==
    /\ steps < RefreshMaxOps
    /\ steps' = steps + 1
    /\ UNCHANGED <<now, wrote, favoritesVars>>

\* cacheManager.set(key, value) before the refresh is asked for.
RefreshSet(key, value) ==
    /\ RefreshStep
    /\ last.op = "none"
    /\ memoryCache' = Put(memoryCache, key, MemoryEntry(value, now))
    /\ kv' = setCached(kv, key, value, now)
    /\ UNCHANGED <<last, call>>

\* CacheManager.get up to `await getCached(...)`: a memory hit returns at
\* once, otherwise the expired memory entry is deleted and getItem is
\* awaited.
GetStart(key, ttlMs) ==
    /\ RefreshStep
    /\ call.pc /= "getItem"
    /\ call' = IF MemoryHit(memoryCache, key, now)
               THEN [pc |-> "returned", key |-> key, value |-> memoryCache[key].value,
                     storeRead |-> FALSE]
               ELSE [pc |-> "getItem", key |-> key, ttlMs |-> ttlMs]
    /\ memoryCache' = IF MemoryHit(memoryCache, key, now) THEN memoryCache
                      ELSE Drop(memoryCache, {key})
    /\ UNCHANGED <<kv, last>>

\* What the clear remembers of gets that went on beside it.
Raced == IF last.op = "clearAllCaches" THEN [last EXCEPT !.raced = TRUE] ELSE last

\* getItem answers and get goes on after its await: a value found is put
\* into the memory map with the time of now.
GetResumes(r) ==
    /\ call' = [pc |-> "returned", key |-> call.key, value |-> r.value,
                storeRead |-> TRUE]
    /\ memoryCache' = r.memory
    /\ last' = Raced
    /\ UNCHANGED kv

GetResume ==
    /\ RefreshStep
    /\ call.pc = "getItem"
    /\ GetResumes(AfterPersistentRead(memoryCache, call.key, now,
           getCached(kv, call.key, PersistentTtl(call.key, call.ttlMs), now, FALSE).value))

\* CacheClearingUtility.clearAllCaches up to `await clearAllCached()`:
\* cacheManager.clearMemoryCache() has run and allItems is awaited.
ClearAllCachesStart ==
    /\ RefreshStep
    /\ last.op = "none"
    /\ memoryCache' = EmptyMap
    /\ last' = [op |-> "clearAllCaches", pc |-> "allItems", keys |-> {},
                failed |-> FALSE, threw |-> FALSE, raced |-> call.pc = "getItem",
                before |-> kv, memoryBefore |-> memoryCache]
    /\ UNCHANGED <<kv, call>>

\* allItems answers with the keys of the store, or rejects: the catch block
\* of clearAllCaches logs and throws the rejection on.
ClearAllCachesListed(listingFails) ==
    /\ RefreshStep
    /\ last.op = "clearAllCaches"
    /\ last.pc = "allItems"
    /\ last' = IF listingFails
               THEN [last EXCEPT !.pc = "done", !.failed = TRUE, !.threw = TRUE]
               ELSE [last EXCEPT !.pc = "removing", !.keys = ClearedAll(kv)]
    /\ UNCHANGED <<kv, memoryCache, call>>

\* The removals end, those of `kept` with a rejection, and clearAllCaches
\* returns or throws.
ClearAllCachesRemoved(kept) ==
    /\ RefreshStep
    /\ last.op = "clearAllCaches"
    /\ last.pc = "removing"
    /\ kv' = Drop(kv, last.keys \ kept)
    /\ last' = [last EXCEPT !.pc = "done", !.failed = kept /= {}, !.threw = kept /= {}]
    /\ UNCHANGED <<memoryCache, call>>

RefreshNext ==
    \/ \E key \in RefreshKeys : RefreshSet(key, StrV(<<"v">>))
    \/ \E key \in RefreshKeys, ttlMs \in {Undef} : GetStart(key, ttlMs)
    \/ GetResume
    \/ ClearAllCachesStart
    \/ \E listingFails \in BOOLEAN : ClearAllCachesListed(listingFails)
    \/ \E kept \in Rejections(ClearedAll(kv)) : ClearAllCachesRemoved(kept)

\* No favorite is stored and no call of the Favorites Store is made.
RefreshStart == FavoritesInit({Absent}) /\ RefreshInit

\* clearAllCaches and a get of the cache manager, interleaved at their
\* awaits.
RefreshSpec == RefreshStart /\ [][RefreshNext]_vars

\* clearAllCaches has returned without an exception.
Cleared == last.op = "clearAllCaches" /\ last.pc = "done" /\ ~last.failed

\* No cache key is stored, the memory map is empty, a get of any key misses
\* and the keys outside the cache hold what they held.
NothingCached ==
    /\ ClearedAll(kv) = {}
    /\ memoryCache = EmptyMap
    /\ \A key \in ManagerKeys :
           CacheManagerGet(memoryCache, kv, key, Undef, now, FALSE).value = Undef
    /\ \A k \in {STORAGE_KEY, FIRST_TIME_KEY} :
           k \in DOMAIN kv /\ kv[k] = last.before[k]

\* C34 as stated: once clearAllCaches has completed nothing is cached, also
\* when a get of the cache manager was under way beside it.
C34_ClearedMeansEmpty == Cleared => NothingCached

\* C34 without a get that awaits the store while the clear runs.
C34_UnracedClear == (Cleared /\ ~last.raced) => NothingCached

\* A clear completed beside no get, on a store and a memory map that held
\* entries.
C34_UnracedWitness ==
    /\ Cleared
    /\ ~last.raced
    /\ ClearedAll(last.before) /= {}
    /\ last.memoryBefore /= EmptyMap

\* ------------------------------------------------------------------------
\* getCached reads only
\* ------------------------------------------------------------------------

\* The text under the key of the last getCached, which did not return it.
Unreturned(k) ==
    /\ last.op = "getCached"
    /\ ~last.failed
    /\ last.value = Undef
    /\ StorageKey(last.key) \in DOMAIN kv
    /\ kv[StorageKey(last.key)].k = k

\* C35: getCached leaves the store as it found it, whatever it returns: an
\* entry that is expired or that it cannot parse is still stored after the
\* read, and the store changes only by a write, a removal or a clear.
C35_GetCachedReadsOnly ==
    /\ last.op = "getCached" => kv = last.before
    /\ (last.op /= "none" /\ kv /= last.before) =>
           last.op \in {"setCached", "removeCached", "clearCachedByPrefix",
                        "clearAllCached", "request"}

\* getCached found an expired entry, returned undefined, and the entry is
\* still stored.
C35_Witness ==
    /\ Unreturned("entry")
    /\ kv[StorageKey(last.key)].savedAtMs.t = "number"
    /\ last.at - kv[StorageKey(last.key)].savedAtMs.n > last.ttlMs

\* The same for a text that is not JSON.
C35_MalformedWitness == Unreturned("garbage")

\* ------------------------------------------------------------------------
\* isFavorite
\* ------------------------------------------------------------------------

\* Call 2 is an isFavorite that returned, made after call 1, an operation o
\* for a location with the same canonical key, had returned.
AskedAfter(o) ==
    /\ Called(1, o)
    /\ Called(2, "isFavorite")
    /\ KeyOf(cand[1]) = KeyOf(cand[2])

\* C36: isFavorite returns true exactly when the list getFavorites gives for
\* the persisted record holds an entry with the candidate's canonical key;
\* with the calls made one after the other it returns true after an
\* addFavorite of the same location, whatever that returned, and false
\* after a removeFavorite of it.
C36_IsFavoriteByKey ==
    /\ \A p \in Procs :
           Called(p, "isFavorite") =>
               (ret[p] = "true" <=> KeyOf(cand[p]) \in Keys(View(pre[p])))
    /\ \A p \in Procs : Called(p, "isFavorite") => ret[p] \in {"true", "false"}
    /\ AskedAfter("addFavorite") => ret[2] = "true"
    /\ AskedAfter("removeFavorite") => ret[2] = "false"

\* A location was added under one spelling and asked for under another,
\* with another name and other coordinates.
C36_Witness ==
    /\ AskedAfter("addFavorite")
    /\ ret[1] = "true"
    /\ cand[1].id /= cand[2].id
    /\ cand[1].lat /= cand[2].lat
    /\ ret[2] = "true"

\* A stored location was removed and then asked for.
C36_RemovedWitness ==
    /\ AskedAfter("removeFavorite")
    /\ KeyOf(cand[1]) \in Keys(View(pre[1]))
    /\ ret[2] = "false"

\* ------------------------------------------------------------------------
\* Age of what CacheManager.get returns
\* ------------------------------------------------------------------------

\* The last operation was a get that returned a value.
GotValue == last.op = "get" /\ last.value /= Undef

\* The latest time at which the value the last get returned can have been
\* set: the stamp of the memory entry it came from (a value copied from the
\* store was set before it was stamped), or savedAtMs of the stored entry.
SetNoLaterThan ==
    IF last.storeRead THEN last.before[StorageKey(last.key)].savedAtMs.n
    ELSE last.memoryBefore[last.key].timestamp

\* C37 as stated: get(key, ttlMs) returns no value that was set longer ago
\* than the persistent TTL asked for (ttlMs, or the default of the key when
\* ttlMs is 0 or left out), from the memory map or from the store.
C37_NoOlderThanTtl ==
    GotValue => last.at - SetNoLaterThan <= PersistentTtl(last.key, last.ttlMs)

\* What holds: a value that get reads from the store is no older than that
\* TTL.
C37_StoreReadWithinTtl ==
    (GotValue /\ last.storeRead) =>
        last.at - SetNoLaterThan <= PersistentTtl(last.key, last.ttlMs)

\* A value was read from the store after time had passed.
C37_StoreReadWitness ==
    /\ GotValue
    /\ last.storeRead
    /\ last.at > SetNoLaterThan

\* ------------------------------------------------------------------------
\* The graph cache keeps locations, modes, palettes and dates apart
\* ------------------------------------------------------------------------

\* paletteId of generateGraphCacheKey for the request q.
PaletteOf(q) == IF q.appearance = Dark THEN Dark ELSE Light

\* Two requests name the same location key, mode, palette and target date.
SameSlot(q1, q2) ==
    /\ q1.locationKey = q2.locationKey
    /\ q1.mode = q2.mode
    /\ PaletteOf(q1) = PaletteOf(q2)
    /\ q1.targetDate = q2.targetDate

\* The requests whose graph setCachedGraph stores under storage key k.
RequestsStoredUnder(k) ==
    {q \in Requests : ~DataHashOf(q).threw /\ StoredUnder(q) = k}

\* The last operation was a getCachedGraph that returned markdown.
GraphHit == last.op = "getCachedGraph" /\ last.value /= Undef

\* C38: the markdown getCachedGraph returns was stored under a key that only
\* requests for the same location key, mode, palette and target date store
\* under, and is the graph of such a request.
C38_SameSlotOnly ==
    GraphHit =>
        /\ \A q \in RequestsStoredUnder(LastStorageKey) : SameSlot(q, last.request)
        /\ \E q \in RequestsStoredUnder(LastStorageKey) : last.value = FreshMarkdown(q)

\* getCachedGraph returned markdown while the store held, for the same data,
\* the graph of another location, mode or palette.
C38_Witness ==
    /\ GraphHit
    /\ \E q \in Requests :
           /\ ~SameSlot(q, last.request)
           /\ DataHashOf(q) = last.hash
           /\ StoredUnder(q) \in DOMAIN last.before

\* The same for a request with a target date.
C38_DateWitness ==
    /\ GraphHit
    /\ last.request.targetDate.def
    /\ \E q \in Requests :
           /\ q.targetDate.def
           /\ q.targetDate /= last.request.targetDate
           /\ StoredUnder(q) \in DOMAIN last.before

\* ------------------------------------------------------------------------
\* What the mode and date invalidations leave alone
\* ------------------------------------------------------------------------

\* The location key of a favorite whose raw id is "summary1".
LocIdSummary1 == <<"i", "d", ":", "s", "u", "m", "m", "a", "r", "y", "1">>

\* A location key whose raw id is the text of a date.
LocIdDate1 == <<"i", "d", ":">> \o Date1

FrameHash == <<"h", "0">>

Slot(locationKey, mode, targetDate) ==
    [locationKey |-> locationKey, mode |-> mode, targetDate |-> targetDate]

\* What the graphs in the store were cached for: location key, mode and
\* target date.
Slots ==
    { Slot(LocIdA, Detailed, Missing),
      Slot(LocIdA, Summary, Missing),
      Slot(LocIdA, Detailed, Given(Date1)),
      Slot(LocIdA, Summary, Given(Date2)),
      Slot(LocIdSummary1, Detailed, Missing),
      Slot(LocIdDate1, Detailed, Given(Date2)) }

\* The storage key of the graph of a slot.
SlotKey(slot) ==
    StorageKey(generateGraphCacheKey(slot.locationKey, slot.mode, slot.targetDate,
                                     FrameHash, Light))

\* The store with a graph for each of the slots, cached at time 0.
RECURSIVE WithSlots(_, _)
WithSlots(items, slots) ==
    IF slots = {} THEN items
    ELSE WithSlots(
             setCached(items,
                 generateGraphCacheKey((CHOOSE s \in slots : TRUE).locationKey,
                                       (CHOOSE s \in slots : TRUE).mode,
                                       (CHOOSE s \in slots : TRUE).targetDate,
                                       FrameHash, Light),
                 GraphCacheEntry(<<"m">>, Thresholds.GRAPH_VERSION, FrameHash, 0), 0),
             slots \ {CHOOSE s \in slots : TRUE})

FrameInit ==
    /\ kv \in {WithSlots(WeatherCached, slots) : slots \in SUBSET Slots}
    /\ now = 0
    /\ memoryCache = EmptyMap
    /\ last = [op |-> "none"]
    /\ wrote = EmptyMap
    /\ steps = 0
    /\ call = NoCall

FrameNext ==
    \/ \E mode \in {Detailed, Summary} : InvalidateAny("mode", mode)
    \/ \E targetDate \in {Date1, Date2} : InvalidateAny("date", targetDate)

\* No favorite is stored and no call of the Favorites Store is made.
FrameStart == FavoritesInit({Absent}) /\ FrameInit

\* Invalidations by mode and by date on stores of cached graphs.
FrameSpec == FrameStart /\ [][FrameNext]_vars

\* The storage keys the last operation removed.
RemovedKeys == DOMAIN last.before \ DOMAIN kv

\* The slot stored under k has the component the last invalidation named.
NamedByLast(slot) ==
    IF last.kind = "mode" THEN slot.mode = last.arg
    ELSE slot.targetDate = Given(last.arg)

\* The location key of the slot holds the text the last invalidation
\* searched for.
LocationHoldsArg(slot) == Includes(slot.locationKey \o <<":">>, <<":">> \o last.arg)

InvalidatedByModeOrDate == last.op = "invalidate" /\ last.kind \in {"mode", "date"}

\* C39 as stated: invalidateModeGraphCache(m) and invalidateDateGraphCache(d)
\* remove only graph entries whose mode is m, or whose target date is d; the
\* other entries keep their text.
C39_OnlyNamedComponent ==
    InvalidatedByModeOrDate =>
        /\ \A k \in RemovedKeys : \E slot \in Slots : SlotKey(slot) = k /\ NamedByLast(slot)
        /\ \A k \in DOMAIN kv : kv[k] = last.before[k]

\* What holds: a removed entry is a graph entry whose mode or date is the
\* one named, or whose location key holds that text after a colon; nothing
\* else is removed or changed.
C39_OnlyMatchingKeys ==
    InvalidatedByModeOrDate =>
        /\ \A k \in RemovedKeys :
               \E slot \in Slots :
                   SlotKey(slot) = k /\ (NamedByLast(slot) \/ LocationHoldsArg(slot))
        /\ \A k \in DOMAIN kv : kv[k] = last.before[k]

\* An invalidation removed entries and left graph entries of the other mode
\* or date, and the weather entry, in the store.
C39_KeptWitness ==
    /\ InvalidatedByModeOrDate
    /\ ~last.failed
    /\ RemovedKeys /= {}
    /\ \E slot \in Slots : SlotKey(slot) \in DOMAIN kv
    /\ StorageKey(WeatherKey) \in DOMAIN kv

\* ------------------------------------------------------------------------
\* The Favorites Store when LocalStorage.setItem rejects
\* ------------------------------------------------------------------------

\* `await setFavorites(deduped)` inside getFavorites rejects: the rejection
\* is thrown inside the try block, the catch block returns its value, and
\* the operation goes on with that.
GetFavoritesMigrateFails(p) ==
    /\ pc[p] = "migrate"
    /\ AfterGetFavorites(p,
           GetFavoritesCatch([threw |-> TRUE, list |-> pend[p], changed |-> TRUE]).list,
           store)
    /\ UNCHANGED <<store, op, cand, pre, replaced, stale, writes, lastWrite>>

\* `await setFavorites(...)` of a mutating operation rejects: nothing is
\* written and the rejection leaves the operation.
MutationWriteFails(p) ==
    /\ pc[p] = "write"
    /\ Return(p, "error", store)
    /\ UNCHANGED <<store, op, cand, list, pend, pre, replaced, stale, writes, lastWrite>>

FailInit == InitWith(InitialStores(MaxOverlapLen))

FailNext ==
    \E p \in Procs :
        \/ \E o \in Ops, c \in Candidates : SeqCall(p, o, c) /\ UNCHANGED cacheVars
        \/ GetFavoritesRead(p) /\ UNCHANGED cacheVars
        \/ GetFavoritesMigrate(p) /\ UNCHANGED cacheVars
        \/ GetFavoritesMigrateFails(p) /\ UNCHANGED cacheVars
        \/ MutationWrite(p) /\ UNCHANGED cacheVars
        \/ MutationWriteFails(p) /\ UNCHANGED cacheVars

\* Calls awaited one after the other on a store whose writes can reject.
FailSpec == FailInit /\ [][FailNext]_vars

\* Call p has got its list from getFavorites, which read an array.
ReadArray(p) ==
    /\ pc[p] \in {"write", "done"}
    /\ ret[p] /= "error"
    /\ pre[p].k = "array"

\* C40 as stated: when the persisted record is a parseable array,
\* getFavorites returns its migrated entries also when the write of the
\* migration fails, and an addFavorite or removeFavorite that returns has
\* left every other stored favorite in the persisted list.
C40_FailedWriteKeepsList ==
    \A p \in Procs :
        /\ ReadArray(p) => list[p] = View(pre[p])
        /\ (Called(p, "addFavorite") /\ ret[p] = "true")
               => Keys(View(pre[p])) \subseteq Keys(View(post[p]))
        /\ (Called(p, "removeFavorite") /\ ret[p] = "void")
               => Keys(View(pre[p])) \ {KeyOf(cand[p])} \subseteq Keys(View(post[p]))

\* What holds: an operation that ends with a rejected write has left the
\* record as it was, or as its migration wrote it.
C40_RejectedWriteKeepsRecord ==
    \A p \in Procs :
        (pc[p] = "done" /\ ret[p] = "error" /\ pre[p].k = "array")
            => \/ post[p] = pre[p]
               \/ post[p] = setFavorites(View(pre[p]))

\* A mutating operation ended with a rejected write on a record that holds
\* favorites.
C40_RejectedWitness ==
    \E p \in Procs :
        /\ pc[p] = "done"
        /\ ret[p] = "error"
        /\ op[p] \in {"addFavorite", "removeFavorite"}
        /\ View(pre[p]) /= <<>>
        /\ post[p] = pre[p]

=============================================================================
